---- MODULE Spec2Model ----
(***************************************************************************)
(* A model of the jcttech draft lifecycle manager (draft_manager.py) and   *)
(* of the issue hierarchy builder (issue_index.py).                        *)
(*                                                                         *)
(* Documents are modelled as a frontmatter mapping plus a body, the body   *)
(* being a sequence of lines.  Lines are taken from a small alphabet of    *)
(* representative texts; what the code asks of a line (does it start with  *)
(* "## ", does it start with "[", does it contain a marker) is tabulated   *)
(* for each text of the alphabet.                                          *)
(***************************************************************************)
EXTENDS Integers, Sequences, FiniteSets, TLC

VARIABLES
    drafts,     \* .specify/drafts/<type>/: file key -> document
    cache,      \* .specify/issues/cache/: <<type, issue number>> -> document
    arch,       \* the archive_draft call in progress, or Idle
    now,        \* the clock read by datetime.now()
    allocLog,   \* history: the <<type, number>> pairs create has handed out, in order
    published,  \* the issues the publication collaborator has created so far
    pushed,     \* history: the archive_draft calls that returned, as [path, key]
    files,      \* get_next_draft_number alone: the directory listing, in glob order
    dirExists,  \* get_next_draft_number alone: whether the drafts directory exists
    nextNumber, \* get_next_draft_number alone: the value returned (0: not called yet)
    vdoc,       \* validate_draft alone: the draft under validation
    vresult,    \* validate_draft alone: the result returned
    issues,     \* build_hierarchy_from_issues: the flat input list
    hierarchy,  \* build_hierarchy_from_issues: the result (issues named by number)
    counting,   \* _count_issues: the call in progress (position, call stack, count)
    probe,      \* a single call of _detect_issue_type or _extract_parent_number: argument and result
    corpus,     \* the analysis passes: the cached issues handed to them
    report      \* the analysis passes: what they returned

lifeVars == <<drafts, cache, arch, now, allocLog, published, pushed>>
seqVars  == <<files, dirExists, nextNumber>>
valVars  == <<vdoc, vresult>>
hierVars == <<issues, hierarchy, counting>>
anaVars  == <<probe, corpus, report>>
vars     == <<lifeVars, seqVars, valVars, hierVars, anaVars>>

(***************************************************************************)
(* Bounds of the model.                                                    *)
(***************************************************************************)
MaxCalls   == 3     \* create and archive calls in one behaviour
MaxTime    == 2     \* clock values: 0..MaxTime
MaxFiles   == 3     \* files in the listing given to get_next_draft_number
MaxPrefix  == 3     \* numeric filename prefixes: 0..MaxPrefix
MaxBody    == 2     \* lines added to a body given to validate_draft
MaxIssues  == 3     \* issues given to build_hierarchy_from_issues
MaxLabels  == 2     \* labels of an issue given to _detect_issue_type
MaxRefs    == 2     \* reference lines of a body given to _extract_parent_number
MaxReqs    == 3     \* requirements of a cached spec
MaxStories == 3     \* stories added to a cache of specs
MaxLines   == 2     \* lines of the body of a cached issue
MaxPieces  == 4     \* words and separators of a title given to map_draft_to_issue_fields

(***************************************************************************)
(* Lines of a document body.                                               *)
(***************************************************************************)
LBlank    == ""
LTitle    == "# Spec: title"
LText     == "Users can sign in."
LSub      == "### Functional Requirements"
LBracket  == "[Describe the feature or change being specified...]"
LClarify  == "Token lifetime [NEEDS CLARIFICATION]"
LReq      == "- [ ] [Requirement 1]"
LCrit     == "- [ ] [Criterion 1]"
LItem     == "- [ ] [Performance requirement]"
LRule     == "---"

HOverview   == "## Overview"
HReqs       == "## Requirements"
HAccept     == "## Acceptance Criteria"
HNotes      == "## Technical Notes"
HApproach   == "## Implementation Approach"
HStories    == "## Stories"
HQuestions  == "## Open Questions"
HDecisions  == "## Technical Decisions"
HDeps       == "## Dependencies"
HRisks      == "## Risks"

\* line.startswith("## ") and line[3:].strip()
HeadingName ==
    [l \in {HOverview, HReqs, HAccept, HNotes, HApproach, HStories,
             HQuestions, HDecisions, HDeps, HRisks} |->
        CASE l = HOverview -> "Overview"
          [] l = HReqs     -> "Requirements"
          [] l = HAccept   -> "Acceptance Criteria"
          [] l = HNotes    -> "Technical Notes"
          [] l = HApproach -> "Implementation Approach"
          [] l = HStories  -> "Stories"
          [] l = HQuestions -> "Open Questions"
          [] l = HDecisions -> "Technical Decisions"
          [] l = HDeps     -> "Dependencies"
          [] l = HRisks    -> "Risks"]

IsHeading(l) == l \in DOMAIN HeadingName

\* line.strip() == ""
IsBlank(l) == l = LBlank

\* line.lstrip().startswith("[")
StartsWithBracket(l) == l = LBracket

\* "[NEEDS CLARIFICATION]" in line
HasClarifyMarker(l) == l = LClarify

\* "[Requirement" in line or "[Criterion" in line
HasGenericPlaceholder(l) == l \in {LReq, LCrit}

REQUIRED_SECTIONS(t) ==
    CASE t = "spec" -> <<"Overview", "Requirements", "Acceptance Criteria">>
      [] t = "plan" -> <<"Implementation Approach", "Stories">>
      [] OTHER      -> <<>>

(***************************************************************************)
(* Documents.  A document is [yaml, fm, body]: fm is the mapping its       *)
(* frontmatter block denotes, yaml tells whether yaml.safe_load accepts    *)
(* the block (when it does not, the text is still there but every reader   *)
(* gets {}), body is the text after the closing "---" line, as lines.      *)
(* A null YAML value is written 0 (the code only asks whether it is        *)
(* falsy).                                                                 *)
(***************************************************************************)
TitleLogin == "Login"
TitleQuote == "Say \"hi\""
Titles     == {TitleLogin, TitleQuote}

\* create_short_name on the modelled titles
create_short_name(title) ==
    CASE title = TitleLogin -> "login"
      [] title = TitleQuote -> "say-hi"

\* The template writes  title: "{title}"  : a double quote inside the title
\* ends the scalar early and yaml.safe_load raises YAMLError.
TitleBreaksYaml(title) == title = TitleQuote

generate_draft_id(draft_type, number, short_name) == <<draft_type, number, short_name>>

\* frontmatter.get(key, default) on the parsed frontmatter
FmGet(doc, key, default) ==
    IF doc.yaml /\ key \in DOMAIN doc.fm THEN doc.fm[key] ELSE default

FmHas(doc, key) == doc.yaml /\ key \in DOMAIN doc.fm

\* The lines left after removing the leading blank lines
DropLeadingBlank(lines) ==
    LET solid == {i \in 1..Len(lines) : ~IsBlank(lines[i])} IN
    IF solid = {} THEN <<>>
    ELSE SubSeq(lines, CHOOSE i \in solid : \A j \in solid : i <= j, Len(lines))

DropTrailingBlank(lines) ==
    LET solid == {i \in 1..Len(lines) : ~IsBlank(lines[i])} IN
    IF solid = {} THEN <<>>
    ELSE SubSeq(lines, 1, CHOOSE i \in solid : \A j \in solid : j <= i)

\* "\n".join(current_content).strip()
Strip(lines) == DropTrailingBlank(DropLeadingBlank(lines))

\* The section loop of parse_draft: a "## " line closes the open section and
\* opens the one it names; sections[name] is assigned when a section closes,
\* so of two sections of one name the later one stays.  Written over line
\* positions: the section a name maps to starts at the last heading of that
\* name and runs to the next heading or the end of the body.
SplitSections(lines) ==
    LET heads == {i \in 1..Len(lines) : IsHeading(lines[i])}
        names == {HeadingName[lines[i]] : i \in heads}
        last(n)  == CHOOSE i \in heads :
                       /\ HeadingName[lines[i]] = n
                       /\ \A j \in heads : HeadingName[lines[j]] = n => j <= i
        stop(i)  == LET later == {j \in heads : j > i} IN
                    IF later = {} THEN Len(lines) + 1
                    ELSE CHOOSE j \in later : \A k \in later : j <= k
    IN  [n \in names |-> Strip(SubSeq(lines, last(n) + 1, stop(last(n)) - 1))]

\* body = content[match.end():] : the pattern's trailing \s*\n takes the blank
\* lines that follow the closing "---"
ParsedBody(doc) == DropLeadingBlank(doc.body)

parse_draft(doc) ==
    [frontmatter |-> IF doc.yaml THEN doc.fm ELSE [k \in {} |-> 0],
     body        |-> ParsedBody(doc),
     sections    |-> SplitSections(ParsedBody(doc))]

(***************************************************************************)
(* validate_draft                                                          *)
(***************************************************************************)
IssueMissing(section)      == <<"Missing required section", section>>
IssueNeedsContent(section) == <<"Section needs content", section>>
IssueClarify     == <<"Contains [NEEDS CLARIFICATION] markers - run /jcttech.clarify", "">>
IssuePlaceholder == <<"Contains placeholder requirements or criteria", "">>
IssueNoParent    == <<"No parent Epic specified - select or create an Epic first", "">>

RECURSIVE CheckRequired(_, _, _)
CheckRequired(required, sections, found) ==
    IF required = <<>> THEN found
    ELSE LET section == Head(required) IN
         CheckRequired(Tail(required), sections,
            IF section \notin DOMAIN sections
            THEN Append(found, IssueMissing(section))
            ELSE IF sections[section] = <<>> \/ StartsWithBracket(Head(sections[section]))
            THEN Append(found, IssueNeedsContent(section))
            ELSE found)

\* The two body-wide checks in the other order
CheckMarkersSwapped(body, found) ==
    LET a == IF \E i \in 1..Len(body) : HasGenericPlaceholder(body[i])
             THEN Append(found, IssuePlaceholder) ELSE found
    IN  IF \E i \in 1..Len(body) : HasClarifyMarker(body[i])
        THEN Append(a, IssueClarify) ELSE a

\* Only the clarification marker is looked for
CheckMarkersClarifyOnly(body, found) ==
    IF \E i \in 1..Len(body) : HasClarifyMarker(body[i])
    THEN Append(found, IssueClarify) ELSE found

CheckMarkers(body, found) ==
    LET a == IF \E i \in 1..Len(body) : HasClarifyMarker(body[i])
             THEN Append(found, IssueClarify) ELSE found
    IN  IF \E i \in 1..Len(body) : HasGenericPlaceholder(body[i])
        THEN Append(a, IssuePlaceholder) ELSE a

CheckParent(doc, draft_type, found) ==
    IF draft_type = "spec" /\ FmGet(doc, "parent_epic", 0) = 0
    THEN Append(found, IssueNoParent) ELSE found

validate_draft(doc, t) ==
    LET parsed     == parse_draft(doc)
        draft_type == FmGet(doc, "type", "spec")
        required   == REQUIRED_SECTIONS(draft_type)
        found      == CheckParent(doc, draft_type,
                        CheckMarkers(parsed.body,
                          CheckRequired(required, parsed.sections, <<>>)))
    IN  [passed |-> Len(found) = 0, issues |-> found, last_check |-> t]

\* A validation that writes its result into the draft's frontmatter
ValidateEffectWritesResult(doc, res) ==
    IF ~doc.yaml THEN doc
    ELSE [doc EXCEPT !.fm = [k \in DOMAIN doc.fm \cup {"validation"} |->
                                IF k = "validation" THEN res ELSE doc.fm[k]]]

\* validate_draft only builds the result: the draft file is not written
ValidateEffect(doc, res) == doc

\* An update that stores the result and leaves ready_to_push as it was
update_draft_validation_keeps_ready(doc, validation_result, t) ==
    IF ~doc.yaml THEN doc
    ELSE [yaml |-> TRUE,
          fm   |-> [k \in DOMAIN doc.fm \cup {"validation", "modified"} |->
                       IF k = "validation" THEN validation_result
                       ELSE IF k = "modified" THEN t ELSE doc.fm[k]],
          body |-> DropLeadingBlank(doc.body)]

(***************************************************************************)
(* update_draft_validation                                                 *)
(***************************************************************************)
SetKey(fm, key, val) == [k \in DOMAIN fm \cup {key} |-> IF k = key THEN val ELSE fm[k]]

update_draft_validation(doc, validation_result, t) ==
    IF ~doc.yaml THEN doc
    ELSE [yaml |-> TRUE,
          fm   |-> SetKey(SetKey(SetKey(doc.fm, "validation", validation_result),
                                 "ready_to_push", validation_result.passed),
                          "modified", t),
          body |-> ParsedBody(doc)]

(***************************************************************************)
(* get_next_draft_number.  A listing is the sequence of the files' leading *)
(* numeric prefixes in the order glob yields them; NoPrefix stands for a   *)
(* name the pattern ^(\d+)- does not match.                                *)
(***************************************************************************)
NoPrefix == -1

\* A scan that keeps the number of the last numbered file instead of the highest
RECURSIVE ScanHighestKeepsLast(_, _)
ScanHighestKeepsLast(listing, highest) ==
    IF listing = <<>> THEN highest
    ELSE LET num == Head(listing) IN
         ScanHighestKeepsLast(Tail(listing), IF num # NoPrefix THEN num ELSE highest)

RECURSIVE ScanHighest(_, _)
ScanHighest(listing, highest) ==
    IF listing = <<>> THEN highest
    ELSE LET num == Head(listing) IN
         ScanHighest(Tail(listing),
                     IF num # NoPrefix /\ num > highest THEN num ELSE highest)

get_next_draft_number(exists, listing) ==
    IF ~exists THEN 1 ELSE ScanHighest(listing, 0) + 1

\* The orders in which glob may yield the files of a directory
Enumerations(S) ==
    {s \in [1..Cardinality(S) -> S] : \A i, j \in 1..Cardinality(S) : s[i] = s[j] => i = j}

\* The draft files of one type; a file key is <<type, number, short_name>>
DraftFiles(draft_type) == {k \in DOMAIN drafts : k[1] = draft_type}

Listing(order) == [i \in 1..Len(order) |-> order[i][2]]

(***************************************************************************)
(* Templates of create_spec_draft and create_plan_draft.  Prose lines that *)
(* no check tells apart are written LText, list items LItem.               *)
(***************************************************************************)
SpecTemplate(description) ==
    <<LBlank, LTitle, LBlank,
      HOverview, LBlank, IF description # "" THEN description ELSE LBracket, LBlank,
      HReqs, LBlank, LSub, LBlank, LReq, LReq, LBlank, LSub, LBlank, LItem, LItem, LBlank,
      HAccept, LBlank, LCrit, LCrit, LCrit, LBlank,
      HNotes, LBlank, LBracket, LBlank,
      HQuestions, LBlank, LItem, LBlank>>

PlanTemplate ==
    <<LBlank, LTitle, LBlank, LText, LBlank,
      HApproach, LBlank, LBracket, LBlank,
      HDecisions, LBlank, LSub, LBlank, LItem, LItem, LBlank, LSub, LBlank, LBracket, LBlank,
      HStories, LBlank, LText, LBlank,
      LSub, LBlank, LText, LBlank, LText, LBlank, LText, LItem, LItem, LItem, LBlank,
      LText, LCrit, LCrit, LBlank, LRule, LBlank,
      LSub, LBlank, LText, LBlank, LText, LBlank, LText, LItem, LItem, LBlank,
      LText, LCrit, LCrit, LBlank,
      HDeps, LBlank, LItem, LItem, LBlank,
      HRisks, LBlank, LItem, LItem, LBlank>>

SpecDraftDoc(number, title, parent_epic, description, t) ==
    [yaml |-> ~TitleBreaksYaml(title),
     fm   |-> [draft_id      |-> generate_draft_id("spec", number, create_short_name(title)),
               type          |-> "spec",
               title         |-> title,
               created       |-> t,
               modified      |-> t,
               status        |-> "draft",
               ready_to_push |-> FALSE,
               parent_epic   |-> IF parent_epic # 0 THEN parent_epic ELSE 0,
               validation    |-> [passed |-> FALSE, issues |-> <<>>]],
     body |-> SpecTemplate(description)]

PlanDraftDoc(number, spec_number, spec_title, t) ==
    [yaml |-> ~TitleBreaksYaml(spec_title),
     fm   |-> [draft_id          |-> generate_draft_id("plan", number, create_short_name(spec_title)),
               type              |-> "plan",
               title             |-> <<"Plan: ", spec_title>>,
               created           |-> t,
               modified          |-> t,
               status            |-> "draft",
               parent_spec       |-> spec_number,
               stories_generated |-> FALSE],
     body |-> PlanTemplate]

\* Bodies an author leaves behind after editing a draft
SpecBodyDone ==
    <<LBlank, LTitle, LBlank, HOverview, LBlank, LText, LBlank,
      HReqs, LBlank, LText, LBlank, HAccept, LBlank, LText, LBlank>>

SpecBodyClarify ==
    <<LBlank, LTitle, LBlank, HOverview, LBlank, LText, LBlank,
      HReqs, LBlank, LClarify, LBlank, HAccept, LBlank, LText, LBlank>>

PlanBodyDone ==
    <<LBlank, LTitle, LBlank, HApproach, LBlank, LText, LBlank,
      HStories, LBlank, LText, LBlank>>

\* The body the author of a draft of the given type writes
EditedBody(draft_type) == IF draft_type = "plan" THEN PlanBodyDone ELSE SpecBodyDone

\* Arguments of the create calls
Descriptions == {LText}
ParentEpics  == {7}
SpecNumbers  == {7}
PlanTitles   == {TitleLogin}

(***************************************************************************)
(* The lifecycle: create, edit, validate, applyValidation, archive.        *)
(***************************************************************************)
Idle == [step |-> 0]

NoResult == [has |-> FALSE]

WriteFile(dir, key, doc) == [k \in DOMAIN dir \cup {key} |-> IF k = key THEN doc ELSE dir[k]]

Unlink(dir, key) == [k \in DOMAIN dir \ {key} |-> dir[k]]

\* The create and archive calls made so far
Calls == Len(allocLog) + published

CreateSpecDraft(title, parent_epic, description) ==
    /\ arch = Idle
    /\ Calls < MaxCalls
    /\ \E order \in Enumerations(DraftFiles("spec")) :
         LET number == get_next_draft_number(TRUE, Listing(order))
             key    == <<"spec", number, create_short_name(title)>>
         IN  /\ drafts' = WriteFile(drafts, key,
                                    SpecDraftDoc(number, title, parent_epic, description, now))
             /\ allocLog' = Append(allocLog, <<"spec", number>>)
    /\ UNCHANGED <<cache, arch, now, published, pushed>>

CreatePlanDraft(spec_number, spec_title) ==
    /\ arch = Idle
    /\ Calls < MaxCalls
    /\ \E order \in Enumerations(DraftFiles("plan")) :
         LET number == get_next_draft_number(TRUE, Listing(order))
             key    == <<"plan", number, create_short_name(spec_title)>>
         IN  /\ drafts' = WriteFile(drafts, key, PlanDraftDoc(number, spec_number, spec_title, now))
             /\ allocLog' = Append(allocLog, <<"plan", number>>)
    /\ UNCHANGED <<cache, arch, now, published, pushed>>

\* The author rewrites the body of a draft (the frontmatter is left alone)
EditBody(p) ==
    /\ arch = Idle
    /\ drafts[p].body # EditedBody(p[1])
    /\ drafts' = [drafts EXCEPT ![p].body = EditedBody(p[1])]
    /\ UNCHANGED <<cache, arch, now, allocLog, published, pushed>>

Validate(p) ==
    /\ arch = Idle
    /\ LET res == validate_draft(drafts[p], now) IN
         drafts' = [drafts EXCEPT ![p] = ValidateEffect(drafts[p], res)]
    /\ UNCHANGED <<cache, arch, now, allocLog, published, pushed>>

\* The caller validates the draft and persists the result
ApplyValidation(p) ==
    /\ arch = Idle
    /\ drafts' = [drafts EXCEPT ![p] = update_draft_validation(drafts[p],
                                            validate_draft(drafts[p], now), now)]
    /\ UNCHANGED <<cache, arch, now, allocLog, published, pushed>>

\* archive_draft, lines 538-561: the cache key and the stamped content
ArchiveKey(doc, issue_number) == <<FmGet(doc, "type", "unknown"), issue_number>>

ArchiveContent(doc, issue_number, t) ==
    IF doc.yaml
    THEN [yaml |-> TRUE,
          fm   |-> SetKey(SetKey(SetKey(doc.fm, "github_issue", issue_number),
                                 "pushed_at", t),
                          "status", "pushed"),
          body |-> doc.body]
    ELSE doc

\* The two file operations with the removal first
ArchiveStepsRemoveFirst == <<"unlink", "write">>

\* archive_draft, lines 563-566: the two file operations, in program order
ArchiveSteps == <<"write", "unlink">>

\* The caller publishes the draft and hands the new issue's number to archive_draft
ArchiveBegin(p, issue_number) ==
    /\ arch = Idle
    /\ Calls < MaxCalls
    /\ issue_number = published + 1
    /\ published' = issue_number
    /\ arch' = [step     |-> 1,
                path     |-> p,
                key      |-> ArchiveKey(drafts[p], issue_number),
                original |-> drafts[p],
                content  |-> ArchiveContent(drafts[p], issue_number, now)]
    /\ UNCHANGED <<drafts, cache, now, allocLog, pushed>>

\* After a step: on to the next one, or the call returns
ArchiveAdvance ==
    IF arch.step < Len(ArchiveSteps)
    THEN /\ arch' = [arch EXCEPT !.step = arch.step + 1]
         /\ UNCHANGED pushed
    ELSE /\ arch' = Idle
         /\ pushed' = pushed \cup {[path |-> arch.path, key |-> arch.key]}

\* cache_file.write_text(content)
ArchiveWrite ==
    /\ arch.step > 0
    /\ ArchiveSteps[arch.step] = "write"
    /\ cache' = WriteFile(cache, arch.key, [complete |-> TRUE, doc |-> arch.content])
    /\ ArchiveAdvance
    /\ UNCHANGED <<drafts, now, allocLog, published>>

\* write_text raises: the entry is not created, or is left truncated; the
\* exception ends archive_draft
ArchiveWriteFails ==
    /\ arch.step > 0
    /\ ArchiveSteps[arch.step] = "write"
    /\ \E torn \in BOOLEAN :
         cache' = IF torn
                  THEN WriteFile(cache, arch.key,
                                 [complete |-> FALSE, doc |-> [arch.content EXCEPT !.body = <<>>]])
                  ELSE cache
    /\ arch' = Idle
    /\ UNCHANGED <<drafts, now, allocLog, published, pushed>>

\* draft_path.unlink()
ArchiveUnlink ==
    /\ arch.step > 0
    /\ ArchiveSteps[arch.step] = "unlink"
    /\ drafts' = Unlink(drafts, arch.path)
    /\ ArchiveAdvance
    /\ UNCHANGED <<cache, now, allocLog, published>>

\* The process stops between two steps of archive_draft
ArchiveStops ==
    /\ arch.step > 1
    /\ arch' = Idle
    /\ UNCHANGED <<drafts, cache, now, allocLog, published, pushed>>

EmptyDir == [k \in {} |-> 0]

InitLife ==
    /\ drafts = EmptyDir
    /\ cache = EmptyDir
    /\ arch = Idle
    /\ now = 0
    /\ allocLog = <<>>
    /\ published = 0
    /\ pushed = {}

NoDoc == [yaml |-> FALSE, fm |-> [type |-> "spec"], body |-> <<>>]

RestSeq == files = <<>> /\ dirExists = FALSE /\ nextNumber = 0
RestVal == vdoc = NoDoc /\ vresult = NoResult
NotCounting == [pc |-> "idle"]

RestHier == issues = <<>> /\ hierarchy = [built |-> FALSE] /\ counting = NotCounting
NoCall == [fn |-> "none"]
RestAna == probe = NoCall /\ corpus = <<>> /\ report = NoCall

Init == InitLife /\ RestSeq /\ RestVal /\ RestHier /\ RestAna

Next ==
    \/ \E title \in Titles, parent_epic \in ParentEpics, description \in Descriptions :
          CreateSpecDraft(title, parent_epic, description) /\ UNCHANGED <<seqVars, valVars, hierVars, anaVars>>
    \/ \E spec_number \in SpecNumbers, title \in PlanTitles :
          CreatePlanDraft(spec_number, title) /\ UNCHANGED <<seqVars, valVars, hierVars, anaVars>>
    \/ \E p \in DOMAIN drafts :
          EditBody(p) /\ UNCHANGED <<seqVars, valVars, hierVars, anaVars>>
    \/ \E p \in DOMAIN drafts : Validate(p) /\ UNCHANGED <<seqVars, valVars, hierVars, anaVars>>
    \/ \E p \in DOMAIN drafts : ApplyValidation(p) /\ UNCHANGED <<seqVars, valVars, hierVars, anaVars>>
    \/ \E p \in DOMAIN drafts, n \in 1..MaxCalls :
          ArchiveBegin(p, n) /\ UNCHANGED <<seqVars, valVars, hierVars, anaVars>>
    \/ ArchiveWrite /\ UNCHANGED <<seqVars, valVars, hierVars, anaVars>>
    \/ ArchiveWriteFails /\ UNCHANGED <<seqVars, valVars, hierVars, anaVars>>
    \/ ArchiveUnlink /\ UNCHANGED <<seqVars, valVars, hierVars, anaVars>>
    \/ ArchiveStops /\ UNCHANGED <<seqVars, valVars, hierVars, anaVars>>

Spec == Init /\ [][Next]_vars

(***************************************************************************)
(* Drafts that are created and validated and never edited.                 *)
(***************************************************************************)
FreshDescriptions == {"", LText}
FreshParents      == {0, 7}

NextFresh ==
    \/ \E title \in Titles, parent_epic \in FreshParents, description \in FreshDescriptions :
          CreateSpecDraft(title, parent_epic, description) /\ UNCHANGED <<seqVars, valVars, hierVars, anaVars>>
    \/ \E spec_number \in SpecNumbers, title \in Titles :
          CreatePlanDraft(spec_number, title) /\ UNCHANGED <<seqVars, valVars, hierVars, anaVars>>
    \/ \E p \in DOMAIN drafts : Validate(p) /\ UNCHANGED <<seqVars, valVars, hierVars, anaVars>>
    \/ \E p \in DOMAIN drafts : ApplyValidation(p) /\ UNCHANGED <<seqVars, valVars, hierVars, anaVars>>

SpecFresh == Init /\ [][NextFresh]_vars

(***************************************************************************)
(* get_next_draft_number on its own: a drafts directory whose files come   *)
(* and go, scanned in whatever order glob yields them.                     *)
(***************************************************************************)
Prefixes == {NoPrefix} \cup 0..MaxPrefix

InsertAt(seq, i, x) == SubSeq(seq, 1, i - 1) \o <<x>> \o SubSeq(seq, i, Len(seq))

RemoveAt(seq, i) == SubSeq(seq, 1, i - 1) \o SubSeq(seq, i + 1, Len(seq))

MakeDir ==
    /\ ~dirExists
    /\ dirExists' = TRUE
    /\ UNCHANGED <<files, nextNumber>>

\* A file appears; glob may yield it at any place of the listing
PutFile(prefix, i) ==
    /\ dirExists
    /\ Len(files) < MaxFiles
    /\ files' = InsertAt(files, i, prefix)
    /\ nextNumber' = 0
    /\ UNCHANGED dirExists

RemoveFile(i) ==
    /\ files' = RemoveAt(files, i)
    /\ nextNumber' = 0
    /\ UNCHANGED dirExists

ScanDir ==
    /\ nextNumber' = get_next_draft_number(dirExists, files)
    /\ UNCHANGED <<files, dirExists>>

NextSeq ==
    \/ MakeDir /\ UNCHANGED <<lifeVars, valVars, hierVars, anaVars>>
    \/ \E prefix \in Prefixes, i \in 1..(Len(files) + 1) :
          PutFile(prefix, i) /\ UNCHANGED <<lifeVars, valVars, hierVars, anaVars>>
    \/ \E i \in 1..Len(files) : RemoveFile(i) /\ UNCHANGED <<lifeVars, valVars, hierVars, anaVars>>
    \/ ScanDir /\ UNCHANGED <<lifeVars, valVars, hierVars, anaVars>>

InitSeq == InitLife /\ RestSeq /\ RestVal /\ RestHier /\ RestAna

SpecSeq == InitSeq /\ [][NextSeq]_vars

(***************************************************************************)
(* validate_draft on its own: one draft, validated again and again.        *)
(***************************************************************************)
ValLines == {LBlank, LText, LBracket, LClarify, LReq,
             HOverview, HReqs, HAccept, HApproach, HStories}

\* The line sequences of length at most n
SeqsUpTo(S, n) == UNION {[1..k -> S] : k \in 0..n}

ValBodies ==
    LET extra == SeqsUpTo(ValLines, MaxBody) IN
    extra \cup {b \o e : b \in {SpecBodyDone, PlanBodyDone}, e \in extra}
          \cup {e \o b : b \in {SpecBodyDone, PlanBodyDone}, e \in extra}

ValFrontmatters ==
    {[yaml |-> FALSE, fm |-> [type |-> "spec"]],
     [yaml |-> TRUE,  fm |-> [type |-> "spec", parent_epic |-> 0]],
     [yaml |-> TRUE,  fm |-> [type |-> "spec", parent_epic |-> 7]],
     [yaml |-> TRUE,  fm |-> [type |-> "plan", parent_spec |-> 7]],
     [yaml |-> TRUE,  fm |-> [type |-> "epic"]],
     [yaml |-> TRUE,  fm |-> [title |-> TitleLogin]]}

ValDocs == {[yaml |-> f.yaml, fm |-> f.fm, body |-> b] : f \in ValFrontmatters, b \in ValBodies}

ValidateAlone ==
    /\ now < MaxTime
    /\ LET res == validate_draft(vdoc, now) IN
         /\ vresult' = [has |-> TRUE, val |-> res]
         /\ vdoc' = ValidateEffect(vdoc, res)
    /\ now' = now + 1
    /\ UNCHANGED <<drafts, cache, arch, allocLog, published, pushed>>

InitVal ==
    /\ InitLife /\ RestSeq /\ RestHier /\ RestAna
    /\ vdoc \in ValDocs
    /\ vresult = NoResult

NextVal == ValidateAlone /\ UNCHANGED <<seqVars, hierVars, anaVars>>

SpecVal == InitVal /\ [][NextVal]_vars

(***************************************************************************)
(* issue_index.py: the hierarchy built from a flat issue list.             *)
(* An issue is [number, labels, title, body]; a body is a sequence of      *)
(* reference lines [label, num], standing for the text "<label>: #<num>".  *)
(***************************************************************************)

\* The type keywords, in the order each check tries them
TypeKeywords == <<"epic", "spec", "story", "task", "bug">>

\* The type keywords the lowercased label contains
KeywordsIn(label) ==
    CASE label = "type:epic"       -> {"epic"}
      [] label = "Story"           -> {"story"}
      [] label = "user-story-spec" -> {"story", "spec"}
      [] label = "bugfix-task"     -> {"bug", "task"}
      [] label = "inspection"      -> {"spec"}
      [] label = "enhancement"     -> {}

\* What the checks of the label loop give for one label: the first of epic,
\* spec, story, task, bug the lowercased label contains, "none" otherwise
LabelKind(label) ==
    LET has == {k \in 1..Len(TypeKeywords) : TypeKeywords[k] \in KeywordsIn(label)}
    IN  IF has = {} THEN "none"
        ELSE TypeKeywords[CHOOSE k \in has : \A j \in has : k <= j]

\* The type whose "[type]" or "type:" form the lowercased title starts with
TitlePrefix(title) ==
    CASE title = "[Story] Sign in"   -> "story"
      [] title = "Epic: Accounts"    -> "epic"
      [] title = "[SPEC] Login"      -> "spec"
      [] title = "task: wire up"     -> "task"
      [] title = "Bug: crash"        -> "bug"
      [] title = "An epic: journey"  -> "none"
      [] title = "Roadmap"           -> "none"

\* What the title prefix checks give for one title
TitleKind(title) ==
    IF TitlePrefix(title) = "none" THEN "unknown" ELSE TitlePrefix(title)

\* A classification that tries each keyword on all labels before the next
\* keyword
_detect_issue_type_keyword_major(issue) ==
    LET has == {k \in 1..Len(TypeKeywords) :
                   \E i \in 1..Len(issue.labels) : TypeKeywords[k] \in KeywordsIn(issue.labels[i])}
    IN  IF has # {}
        THEN TypeKeywords[CHOOSE k \in has : \A j \in has : k <= j]
        ELSE TitleKind(issue.title)

\* _detect_issue_type: the first label that names a type decides, then the
\* title prefix, then "unknown"
_detect_issue_type(issue) ==
    LET hits == {i \in 1..Len(issue.labels) : LabelKind(issue.labels[i]) # "none"}
    IN  IF hits # {}
        THEN LabelKind(issue.labels[CHOOSE i \in hits : \A j \in hits : i <= j])
        ELSE TitleKind(issue.title)

\* The patterns of _extract_parent_number, in the order they are tried
ParentPatterns == <<"Parent Epic", "Parent Spec", "Parent Story", "Related Issue", "Parent">>

\* The pattern that matches the text "<label>: #<num>" of a reference line,
\* case ignored, anywhere in the text; "none" when none does
MatchedPattern(label) ==
    CASE label = "Parent Epic"     -> "Parent Epic"
      [] label = "parent epic"     -> "Parent Epic"
      [] label = "Parent Spec"     -> "Parent Spec"
      [] label = "Parent Story"    -> "Parent Story"
      [] label = "Related Issue"   -> "Related Issue"
      [] label = "Parent"          -> "Parent"
      [] label = "Grandparent"     -> "Parent"
      [] label = "**Parent Epic**" -> "none"
      [] label = "**Parent Spec**" -> "none"
      [] OTHER                     -> "none"

\* _extract_parent_number returns None
NoParent == -1

\* A parent extraction that returns the leftmost reference of the body,
\* whatever its pattern
_extract_parent_number_leftmost(issue) ==
    LET found == {i \in 1..Len(issue.body) : MatchedPattern(issue.body[i].label) # "none"}
    IN  IF found = {} THEN NoParent
        ELSE issue.body[CHOOSE i \in found : \A j \in found : i <= j].num

\* _extract_parent_number: the first pattern that matches anywhere in the
\* body, and for it the leftmost match
_extract_parent_number(issue) ==
    LET matches(k) == {i \in 1..Len(issue.body) :
                          MatchedPattern(issue.body[i].label) = ParentPatterns[k]}
        found      == {k \in 1..Len(ParentPatterns) : matches(k) # {}}
    IN  IF found = {} THEN NoParent
        ELSE LET k == CHOOSE x \in found : \A y \in found : x <= y
                 i == CHOOSE x \in matches(k) : \A y \in matches(k) : x <= y
             IN  issue.body[i].num

\* "if parent_num": None and 0 are false
Truthy(parent_num) == parent_num # NoParent /\ parent_num # 0

\* First pass: every issue is given its type and an empty children list and
\* is entered in issue_map under its number
FirstPass(input) ==
    [n \in {input[i].number : i \in 1..Len(input)} |->
        LET i == CHOOSE x \in 1..Len(input) :
                    /\ input[x].number = n
                    /\ \A y \in 1..Len(input) : input[y].number = n => y <= x
        IN  [type |-> _detect_issue_type(input[i]), children |-> <<>>]]

\* The second pass with the elif turned into an if: an epic is listed as a
\* root also when it was attached to a parent
PlaceIssueRootsEveryEpic(h, issue) ==
    LET parent_num == _extract_parent_number(issue)
        attached   == Truthy(parent_num) /\ parent_num \in DOMAIN h.issue_map
        h1 == IF attached
              THEN [h EXCEPT !.issue_map[parent_num].children = Append(@, issue.number)]
              ELSE h
    IN  IF h.issue_map[issue.number].type = "epic"
        THEN [h1 EXCEPT !.epics = Append(@, issue.number)]
        ELSE h1

\* One iteration of the second pass
PlaceIssue(h, issue) ==
    LET parent_num == _extract_parent_number(issue)
    IN  IF Truthy(parent_num) /\ parent_num \in DOMAIN h.issue_map
        THEN [h EXCEPT !.issue_map[parent_num].children = Append(@, issue.number)]
        ELSE IF h.issue_map[issue.number].type = "epic"
             THEN [h EXCEPT !.epics = Append(@, issue.number)]
             ELSE h

RECURSIVE SecondPass(_, _, _)
SecondPass(h, input, i) ==
    IF i > Len(input) THEN h
    ELSE SecondPass(PlaceIssue(h, input[i]), input, i + 1)

\* build_hierarchy_from_issues; issues are named by their numbers
build_hierarchy_from_issues(input) ==
    LET h == SecondPass([epics |-> <<>>, issue_map |-> FirstPass(input)], input, 1)
    IN  [built |-> TRUE, epics |-> h.epics, issue_map |-> h.issue_map]

\* The inputs: issue numbers are positive and unique
IssueNumbers == 1..MaxIssues
IssueShapes ==
    { [labels |-> <<"enhancement", "type:epic">>, title |-> "Roadmap"],
      [labels |-> <<"enhancement">>, title |-> "[Story] Sign in"] }
\* The numbers a body refers to: none (#0), two issues of the input, one that
\* is not in the input
ParentRefs == {0, 1, 2, MaxIssues + 1}
IssueBodies ==
    {<<>>} \cup {<<[label |-> "Parent Epic", num |-> k]>> : k \in ParentRefs}
Issue(number, shape, body) ==
    [number |-> number, labels |-> shape.labels, title |-> shape.title, body |-> body]

\* A caller hands a flat issue list to build_hierarchy_from_issues
Build ==
    /\ ~hierarchy.built
    /\ \E k \in 0..MaxIssues :
         \E numbers \in [1..k -> IssueNumbers], shapes \in [1..k -> IssueShapes],
            bodies \in [1..k -> IssueBodies] :
            LET input == [i \in 1..k |-> Issue(numbers[i], shapes[i], bodies[i])]
            IN  /\ \A i, j \in 1..k : numbers[i] = numbers[j] => i = j
                /\ issues' = input
                /\ hierarchy' = build_hierarchy_from_issues(input)
    /\ UNCHANGED <<lifeVars, seqVars, valVars, counting, anaVars>>

InitHier == InitLife /\ RestSeq /\ RestVal /\ RestHier /\ RestAna

NextHier == Build

SpecHier == InitHier /\ [][NextHier]_vars

(***************************************************************************)
(* issue_index.py: _count_issues over a built hierarchy, as                *)
(* generate_index_markdown calls it.  The recursion of _count_children is  *)
(* a stack of frames <<issue, position in its children list>>.             *)
(***************************************************************************)

\* The lists counted: numbers 1..k in input order, any shape, any body
CountInputs ==
    UNION {{[i \in 1..k |-> Issue(i, shapes[i], bodies[i])] :
               shapes \in [1..k -> IssueShapes], bodies \in [1..k -> IssueBodies]} :
           k \in 0..MaxIssues}

\* A caller builds the hierarchy and hands it to _count_issues
StartCount ==
    /\ counting.pc = "idle"
    /\ ~hierarchy.built
    /\ \E input \in CountInputs :
          /\ issues' = input
          /\ hierarchy' = build_hierarchy_from_issues(input)
    /\ counting' = [pc |-> "run", epic |-> 1, stack |-> <<>>, count |-> 0]
    /\ UNCHANGED <<lifeVars, seqVars, valVars, anaVars>>

\* Entering _count_children(issue): count = len(issue["_children"])
EnterFrame(c, n) ==
    [c EXCEPT !.stack = Append(@, <<n, 1>>),
              !.count = @ + Len(hierarchy.issue_map[n].children)]

\* A count above the number of issues there can be is a runaway recursion,
\* which the interpreter's recursion limit ends
WithinLimit == counting.count <= MaxIssues

\* _count_issues: the next epic of hierarchy["epics"]: count += 1, then
\* _count_children(epic)
CountEpic ==
    /\ counting.pc = "run"
    /\ counting.stack = <<>>
    /\ counting.epic <= Len(hierarchy.epics)
    /\ WithinLimit
    /\ counting' = EnterFrame([counting EXCEPT !.epic = @ + 1, !.count = @ + 1],
                              hierarchy.epics[counting.epic])
    /\ UNCHANGED <<lifeVars, seqVars, valVars, issues, hierarchy, anaVars>>

\* _count_children: the next child of the loop: count += _count_children(child)
CountChild ==
    /\ counting.pc = "run"
    /\ counting.stack # <<>>
    /\ WithinLimit
    /\ LET depth == Len(counting.stack)
           n     == counting.stack[depth][1]
           i     == counting.stack[depth][2]
       IN  /\ i <= Len(hierarchy.issue_map[n].children)
           /\ counting' = EnterFrame([counting EXCEPT !.stack[depth] = <<n, i + 1>>],
                                     hierarchy.issue_map[n].children[i])
    /\ UNCHANGED <<lifeVars, seqVars, valVars, issues, hierarchy, anaVars>>

\* _count_children: the loop is over, return count
CountReturn ==
    /\ counting.pc = "run"
    /\ counting.stack # <<>>
    /\ LET depth == Len(counting.stack)
           n     == counting.stack[depth][1]
           i     == counting.stack[depth][2]
       IN  /\ i > Len(hierarchy.issue_map[n].children)
           /\ counting' = [counting EXCEPT !.stack = SubSeq(@, 1, depth - 1)]
    /\ UNCHANGED <<lifeVars, seqVars, valVars, issues, hierarchy, anaVars>>

\* _count_issues: every epic is counted, return count
CountDone ==
    /\ counting.pc = "run"
    /\ counting.stack = <<>>
    /\ counting.epic > Len(hierarchy.epics)
    /\ counting' = [counting EXCEPT !.pc = "done"]
    /\ UNCHANGED <<lifeVars, seqVars, valVars, issues, hierarchy, anaVars>>

InitCount == InitLife /\ RestSeq /\ RestVal /\ RestHier /\ RestAna

NextCount == StartCount \/ CountEpic \/ CountChild \/ CountReturn \/ CountDone

\* A call that has started runs on: nothing else holds the interpreter back
SpecCount == InitCount /\ [][NextCount]_vars /\ WF_vars(NextCount)

(***************************************************************************)
(* issue_index.py: _detect_issue_type and _extract_parent_number called on *)
(* one issue at a time.                                                    *)
(***************************************************************************)
ClassLabels == {"type:epic", "Story", "user-story-spec", "bugfix-task", "inspection", "enhancement"}
ClassTitles == {"[Story] Sign in", "Epic: Accounts", "[SPEC] Login", "task: wire up",
                "Bug: crash", "An epic: journey", "Roadmap"}
ClassIssues ==
    {[number |-> n, labels |-> ls, title |-> t, body |-> b] :
        n \in {1}, ls \in SeqsUpTo(ClassLabels, MaxLabels), t \in ClassTitles,
        b \in {<<>>, <<[label |-> "Parent Epic", num |-> 1]>>}}

\* A caller classifies an issue
Classify ==
    /\ probe = NoCall
    /\ \E issue \in ClassIssues :
          probe' = [fn |-> "classify", arg |-> issue, result |-> _detect_issue_type(issue)]
    /\ UNCHANGED <<lifeVars, seqVars, valVars, hierVars, corpus, report>>

InitClass == InitLife /\ RestSeq /\ RestVal /\ RestHier /\ RestAna

NextClass == Classify

SpecClass == InitClass /\ [][NextClass]_vars

RefLabels == {"Parent Epic", "parent epic", "Parent Spec", "Parent Story", "Related Issue",
              "Parent", "Grandparent", "**Parent Epic**"}
RefNumbers == {5, 9}
RefLines == {[label |-> l, num |-> n] : l \in RefLabels, n \in RefNumbers}
RefIssues ==
    {[number |-> 1, labels |-> <<>>, title |-> "Roadmap", body |-> b] :
        b \in SeqsUpTo(RefLines, MaxRefs)}

\* A caller extracts the parent number of an issue
ExtractParent ==
    /\ probe = NoCall
    /\ \E issue \in RefIssues :
          probe' = [fn |-> "parent", arg |-> issue, result |-> _extract_parent_number(issue)]
    /\ UNCHANGED <<lifeVars, seqVars, valVars, hierVars, corpus, report>>

InitParent == InitLife /\ RestSeq /\ RestVal /\ RestHier /\ RestAna

NextParent == ExtractParent

SpecParent == InitParent /\ [][NextParent]_vars

(***************************************************************************)
(* issue_index.py: the cached corpus.  A cached issue has a number, the    *)
(* type of its front matter and a body; a body is a list of lines.  A line *)
(* [label, num] is a reference line whose text is given by its label       *)
(* ("Parent Spec: #12", "parent_spec: 12", "Implements Spec #12") or, with *)
(* num = 0, a line whose text is the label itself.                         *)
(***************************************************************************)
TFast   == "The API must be fast."
TBare   == "Must be fast"
TFaster == "Faster checkout."
TTwice  == "It is fast. Really fast and simple."
TDrift  == "Clients call the endpoint [TBD]"
TLong   == "Many users of the service expect that every page of the product loads without any noticeable delay at all times."
LUsers  == "- [ ] Users can sign in"

\* The lines that generate_story_body writes
LSignIn      == "Users can sign in"
HUserStory   == "## User Story"
HDescription == "## Description"
HTasks       == "## Tasks"
LAsA         == "_As a [user type], I want [action] so that [benefit]._"
LDetailed    == "_[Detailed description of the story...]_"
LTask1       == "- [ ] [Task 1]"
LTask2       == "- [ ] [Task 2]"
LCrit2       == "- [ ] [Criterion 2]"

Text(label) == [label |-> label, num |-> 0]

\* Number of characters of str(n)
RECURSIVE Digits(_)
Digits(n) == IF n < 10 THEN 1 ELSE 1 + Digits(n \div 10)

\* len(text) of a line
LineLen(line) ==
    LET label == line.label
    IN  CASE label \in {"Parent Epic", "parent epic", "Parent Spec", "Grandparent"}
                                       -> 14 + Digits(line.num)
          [] label = "Parent Story"    -> 15 + Digits(line.num)
          [] label = "Related Issue"   -> 16 + Digits(line.num)
          [] label = "Parent"          -> 9 + Digits(line.num)
          [] label \in {"**Parent Epic**", "**Parent Spec**"} -> 18 + Digits(line.num)
          [] label = "parent_spec"     -> 13 + Digits(line.num)
          [] label = "Implements Spec" -> 17 + Digits(line.num)
          [] label = TFast    -> 21
          [] label = TBare    -> 12
          [] label = TFaster  -> 16
          [] label = TTwice   -> 35
          [] label = TDrift   -> 31
          [] label = TLong    -> 112
          [] label = LUsers   -> 23
          [] label = LText    -> 18
          [] label = LBlank   -> 0
          [] label = LSub     -> 27
          [] label = LClarify -> 36
          [] label = LReq     -> 21
          [] label = LCrit    -> 19
          [] label = LItem    -> 31
          [] label = HReqs    -> 15
          [] label = HAccept  -> 22
          [] label = HOverview -> 11
          [] label = HNotes       -> 18
          [] label = HUserStory   -> 13
          [] label = HDescription -> 14
          [] label = HTasks       -> 8
          [] label = LAsA         -> 54
          [] label = LDetailed    -> 40
          [] label \in {LTask1, LTask2} -> 14
          [] label = LCrit2       -> 19

\* The vague terms that occur in the modelled lines, in the order of the
\* source's list
VAGUE_TERMS == <<"fast", "simple", "many">>

\* "term in body_lower", line by line
VagueIn(label) ==
    CASE label \in {TFast, TBare, TFaster} -> {"fast"}
      [] label = TTwice                    -> {"fast", "simple"}
      [] label = TLong                     -> {"many"}
      [] OTHER                             -> {}

\* Where \bterm\b matches in the line, case ignored (first character = 1)
WordAt(label, term) ==
    CASE label = TFast  /\ term = "fast"   -> {17}
      [] label = TBare  /\ term = "fast"   -> {9}
      [] label = TTwice /\ term = "fast"   -> {7, 20}
      [] label = TTwice /\ term = "simple" -> {29}
      [] label = TLong  /\ term = "many"   -> {1}
      [] OTHER                             -> {}

\* Where the line has a "."
Periods(label) ==
    CASE label = TFast   -> {21}
      [] label = TFaster -> {16}
      [] label = TTwice  -> {11, 35}
      [] label = TLong   -> {112}
      [] label = LText   -> {18}
      [] label = LAsA    -> {53}
      [] label = LDetailed -> {36, 37, 38}
      [] OTHER           -> {}

\* The terms of the groups that occur in the modelled lines, in the order of
\* the source's groups
TERM_GROUPS == << <<"user", "client">>, <<"token">>, <<"api", "endpoint", "service">> >>

\* "t in all_text", line by line
DriftIn(label) ==
    CASE label = TFast           -> {"api"}
      [] label = TDrift          -> {"client", "endpoint"}
      [] label = TLong           -> {"user", "service"}
      [] label \in {LUsers, LText, HUserStory, LAsA} -> {"user"}
      [] label = LClarify        -> {"token"}
      [] OTHER                   -> {}

\* The placeholder patterns (numbered as listed in detect_placeholders) that
\* match in the line
PlaceholdersIn(label) ==
    CASE label = LClarify -> {1}
      [] label = LReq     -> {2}
      [] label \in {LCrit, LCrit2} -> {3}
      [] label = TDrift   -> {6}
      [] OTHER            -> {}

\* ^\s*-\s*\[[ xX]?\]\s*(.+)$
IsCheckbox(label) == label \in {LReq, LCrit, LItem, LUsers, LTask1, LTask2, LCrit2}

\* ##\s*Requirements\s*\n
IsRequirementsHeading(label) == label = HReqs

\* \n##\s+[A-Z], case ignored
IsSectionHeading(label) == IsHeading(label) \/ label \in {HUserStory, HDescription, HTasks}

\* The phrase of analyze_coverage that the text of the line holds in front
\* of its number
LinkPhrase(label) ==
    CASE label = "Parent Spec"     -> "Parent Spec: #"
      [] label = "parent_spec"     -> "parent_spec: "
      [] label = "Implements Spec" -> "Spec #"
      [] label = "**Parent Spec**" -> "**Parent Spec**: #"
      [] OTHER                     -> "none"

\* str(n) is a prefix of str(m)
RECURSIVE IsDigitPrefix(_, _)
IsDigitPrefix(n, m) == m = n \/ (m >= 10 /\ IsDigitPrefix(n, m \div 10))

\* f"<phrase>{spec_num}" in story_body, for one of the given phrases
LinksTo(body, spec_num, phrases) ==
    \E i \in 1..Len(body) :
        /\ LinkPhrase(body[i].label) \in phrases
        /\ IsDigitPrefix(spec_num, body[i].num)

Min(a, b) == IF a <= b THEN a ELSE b

RECURSIVE Flatten(_)
Flatten(seqs) == IF seqs = <<>> THEN <<>> ELSE Head(seqs) \o Flatten(Tail(seqs))

(***************************************************************************)
(* issue_index.py: the passes of the corpus analyzer.  A finding is a      *)
(* record [category, severity, issue, detail]; detail holds the fields     *)
(* that are particular to the category.                                    *)
(***************************************************************************)
Finding(category, severity, issue, detail) ==
    [category |-> category, severity |-> severity, issue |-> issue, detail |-> detail]

\* A drift pass that looks at one issue at a time
detect_terminology_drift_per_issue(all_issues) ==
    LET in_text(i, t) == \E j \in 1..Len(all_issues[i].body) :
                             t \in DriftIn(all_issues[i].body[j].label)
        group(i, g)   == IF Cardinality({k \in 1..Len(TERM_GROUPS[g]) :
                                            in_text(i, TERM_GROUPS[g][k])}) > 1
                         THEN <<Finding("terminology_drift", "MEDIUM", 0,
                                  SelectSeq(TERM_GROUPS[g], LAMBDA t : in_text(i, t)))>>
                         ELSE <<>>
    IN  Flatten([i \in 1..Len(all_issues) |->
                    Flatten([g \in 1..Len(TERM_GROUPS) |-> group(i, g)])])

\* detect_terminology_drift: one finding for each group of which more than
\* one term occurs in the joined bodies
detect_terminology_drift(all_issues) ==
    LET in_text(t) == \E i \in 1..Len(all_issues) : \E j \in 1..Len(all_issues[i].body) :
                          t \in DriftIn(all_issues[i].body[j].label)
        group(g)   == LET used_terms == SelectSeq(TERM_GROUPS[g], in_text)
                      IN  IF Len(used_terms) > 1
                          THEN <<Finding("terminology_drift", "MEDIUM", 0, used_terms)>>
                          ELSE <<>>
    IN  Flatten([g \in 1..Len(TERM_GROUPS) |-> group(g)])

\* Number of characters of the body in front of line i, the lines being
\* joined by newlines
RECURSIVE Offset(_, _)
Offset(body, i) == IF i = 1 THEN 0 ELSE Offset(body, i - 1) + LineLen(body[i - 1]) + 1

PeriodsOf(body) ==
    UNION {{Offset(body, i) + p : p \in Periods(body[i].label)} : i \in 1..Len(body)}

WordsOf(body, term) ==
    UNION {{Offset(body, i) + p : p \in WordAt(body[i].label, term)} : i \in 1..Len(body)}

\* re.findall(rf"[^.]*\b{term}\b[^.]*\.", body): the word occurrences of the
\* term that have a period somewhere behind them
SentenceMatches(body, term) ==
    {o \in WordsOf(body, term) : \E p \in PeriodsOf(body) : p > o}

\* matches[0][:100]: the first match runs from behind the last period in
\* front of the word (or from the start of the body) to the first period
\* behind it, and is cut at 100 characters; strip() removes white space at
\* its ends only
FirstContext(body, term) ==
    LET found  == SentenceMatches(body, term)
        o      == CHOOSE x \in found : \A y \in found : x <= y
        before == {p \in PeriodsOf(body) : p < o}
        from   == IF before = {} THEN 1
                  ELSE 1 + CHOOSE x \in before : \A y \in before : y <= x
        behind == {p \in PeriodsOf(body) : p > o}
        to     == CHOOSE x \in behind : \A y \in behind : x <= y
    IN  [from |-> from, to |-> Min(to, from + 99)]

\* detect_vague_language for one issue: for each term, in the order of the
\* vocabulary, that is a substring of the lowered body and for which the
\* sentence pattern matches, one finding
VagueOfIssue(issue) ==
    LET body       == issue.body
        in_body(t) == \E j \in 1..Len(body) : t \in VagueIn(body[j].label)
        one(k)     == LET term == VAGUE_TERMS[k]
                      IN  IF in_body(term) /\ SentenceMatches(body, term) # {}
                          THEN <<Finding("vague_language", "MEDIUM", issue.number,
                                   [term |-> term, context |-> FirstContext(body, term)])>>
                          ELSE <<>>
    IN  Flatten([k \in 1..Len(VAGUE_TERMS) |-> one(k)])

detect_vague_language(all_issues) ==
    Flatten([i \in 1..Len(all_issues) |-> VagueOfIssue(all_issues[i])])

\* detect_placeholders: for each issue and each pattern that matches in its
\* body, one finding
detect_placeholders(all_issues) ==
    LET one(issue, k) == IF \E j \in 1..Len(issue.body) : k \in PlaceholdersIn(issue.body[j].label)
                         THEN <<Finding("placeholder", "HIGH", issue.number, k)>>
                         ELSE <<>>
        of(issue)     == Flatten([k \in 1..6 |-> one(issue, k)])
    IN  Flatten([i \in 1..Len(all_issues) |-> of(all_issues[i])])

\* The parent patterns of validate_hierarchy, in the order they are tried
HierarchyPatterns == <<"Parent Epic", "Parent Spec", "Parent Story">>

\* validate_hierarchy for one issue: every pattern that matches gives the
\* issue a parent, and a broken reference if the number of its leftmost
\* match is not a cached issue; a spec or story without a parent is an orphan
HierarchyOfIssue(issue, issue_numbers) ==
    LET body       == issue.body
        matches(k) == {i \in 1..Len(body) : MatchedPattern(body[i].label) = HierarchyPatterns[k]}
        parent(k)  == body[CHOOSE x \in matches(k) : \A y \in matches(k) : x <= y].num
        broken(k)  == IF matches(k) # {} /\ parent(k) \notin issue_numbers
                      THEN <<Finding("broken_reference", "CRITICAL", issue.number, parent(k))>>
                      ELSE <<>>
        has_parent == \E k \in 1..Len(HierarchyPatterns) : matches(k) # {}
        orphan     == IF issue.type \in {"spec", "story"} /\ ~has_parent
                      THEN <<Finding("orphan_issue", "HIGH", issue.number, issue.type)>>
                      ELSE <<>>
    IN  Flatten([k \in 1..Len(HierarchyPatterns) |-> broken(k)]) \o orphan

validate_hierarchy(all_issues) ==
    LET issue_numbers == {all_issues[i].number : i \in 1..Len(all_issues)} \ {0}
    IN  Flatten([i \in 1..Len(all_issues) |-> HierarchyOfIssue(all_issues[i], issue_numbers)])

\* extract_requirements_from_spec: the checkbox items of the Requirements
\* section.  The section starts at the first line that is not blank behind
\* the first Requirements heading and ends in front of the next "## "
\* heading behind its first line, or at the end of the body
extract_requirements_from_spec(body) ==
    LET heads == {i \in 1..Len(body) : IsRequirementsHeading(body[i].label)}
    IN  IF heads = {} THEN <<>>
        ELSE LET h       == CHOOSE x \in heads : \A y \in heads : x <= y
                 content == {i \in (h + 1)..Len(body) : ~IsBlank(body[i].label)}
             IN  IF content = {} THEN <<>>
                 ELSE LET s     == CHOOSE x \in content : \A y \in content : x <= y
                          ends  == {i \in (s + 1)..Len(body) : IsSectionHeading(body[i].label)}
                          e     == IF ends = {} THEN Len(body)
                                   ELSE (CHOOSE x \in ends : \A y \in ends : x <= y) - 1
                      IN  SelectSeq([i \in 1..(e - s + 1) |-> body[s + i - 1].label], IsCheckbox)

\* A rounding that cuts the percentage off behind its first decimal
RoundTenthsDown(covered, req_count) == (1000 * covered) \div req_count

\* round(covered / req_count * 100, 1), in tenths of a percent: the nearest
\* tenth, the even one of two that are equally near
RoundTenths(covered, req_count) ==
    LET q == (1000 * covered) \div req_count
        r == (1000 * covered) % req_count
    IN  IF 2 * r < req_count THEN q
        ELSE IF 2 * r > req_count THEN q + 1
        ELSE IF q % 2 = 0 THEN q ELSE q + 1

\* A coverage count that takes the requirements left over for the covered
CoveredIsRemainder(story_count, req_count) == req_count - Min(story_count, req_count)

\* covered = min(story_count, req_count)
Covered(story_count, req_count) == Min(story_count, req_count)

\* The entry of coverage_by_spec for one spec
CoverageOfSpec(spec, stories) ==
    LET requirements == extract_requirements_from_spec(spec.body)
        linked       == SelectSeq(stories, LAMBDA story :
                            LinksTo(story.body, spec.number,
                                    {"Parent Spec: #", "parent_spec: ", "Spec #"}))
        story_count  == Len(linked)
        req_count    == Len(requirements)
        covered      == Covered(story_count, req_count)
    IN  [requirements     |-> req_count,
         stories          |-> story_count,
         coverage_percent |-> IF req_count > 0 THEN RoundTenths(covered, req_count) ELSE 1000,
         uncovered        |-> req_count - covered,
         covered          |-> covered,
         open             |-> SubSeq(requirements, covered + 1, req_count)]

RECURSIVE SumSeq(_)
SumSeq(ints) == IF ints = <<>> THEN 0 ELSE Head(ints) + SumSeq(Tail(ints))

\* analyze_coverage.  coverage_by_spec is keyed by spec number: of two specs
\* with one number the later one's entry stays, at the place of the first;
\* percentages are in tenths of a percent
analyze_coverage(specs, stories) ==
    LET entries  == [i \in 1..Len(specs) |-> CoverageOfSpec(specs[i], stories)]
        numbers  == {specs[i].number : i \in 1..Len(specs)}
        last(n)  == CHOOSE i \in 1..Len(specs) :
                       /\ specs[i].number = n
                       /\ \A j \in 1..Len(specs) : specs[j].number = n => j <= i
        first(i) == \A j \in 1..(i - 1) : specs[j].number # specs[i].number
        keys     == SelectSeq([i \in 1..Len(specs) |-> [at |-> i, number |-> specs[i].number]],
                              LAMBDA k : first(k.at))
        total_requirements == SumSeq([i \in 1..Len(specs) |-> entries[i].requirements])
        total_covered      == SumSeq([i \in 1..Len(specs) |-> entries[i].covered])
        has_parent(story)  == \E i \in 1..Len(specs) :
                                 LinksTo(story.body, specs[i].number,
                                         {"Parent Spec: #", "parent_spec: "})
        orphans            == SelectSeq(stories, LAMBDA story : ~has_parent(story))
    IN  [total_specs   |-> Len(specs),
         total_stories |-> Len(stories),
         spec_order    |-> [i \in 1..Len(keys) |-> keys[i].number],
         coverage_by_spec |->
             [n \in numbers |-> [f \in {"requirements", "stories", "coverage_percent", "uncovered"}
                                   |-> entries[last(n)][f]]],
         uncovered_requirements |->
             Flatten([i \in 1..Len(specs) |->
                 [k \in 1..Len(entries[i].open) |->
                     [spec |-> specs[i].number, requirement |-> entries[i].open[k]]]]),
         orphan_stories |-> [i \in 1..Len(orphans) |-> orphans[i].number],
         overall_coverage_percent |->
             IF total_requirements > 0 THEN RoundTenths(total_covered, total_requirements)
             ELSE 0]

\* The findings that generate_analysis_report adds from the coverage
CoverageFindings(coverage) ==
    LET gap(n) == LET cov_data == coverage.coverage_by_spec[n]
                  IN  IF cov_data.coverage_percent < 1000
                      THEN <<Finding("coverage_gap",
                                     IF cov_data.coverage_percent < 500 THEN "HIGH" ELSE "MEDIUM",
                                     n,
                                     [coverage  |-> cov_data.coverage_percent,
                                      uncovered |-> cov_data.uncovered])>>
                      ELSE <<>>
    IN  Flatten([i \in 1..Len(coverage.spec_order) |-> gap(coverage.spec_order[i])])
        \o [i \in 1..Len(coverage.orphan_stories) |->
               Finding("orphan_story", "MEDIUM", coverage.orphan_stories[i], 0)]

\* severity_order.get(f.get("severity", "LOW"), 4)
severity_order(f) ==
    CASE f.severity = "CRITICAL" -> 0
      [] f.severity = "HIGH"     -> 1
      [] f.severity = "MEDIUM"   -> 2
      [] f.severity = "LOW"      -> 3
      [] OTHER                   -> 4

\* An insertion that puts a finding in front of the findings of its severity
InsertFindingInFront(sorted, f) ==
    LET k == Cardinality({i \in 1..Len(sorted) : severity_order(sorted[i]) < severity_order(f)})
    IN  SubSeq(sorted, 1, k) \o <<f>> \o SubSeq(sorted, k + 1, Len(sorted))

\* list.sort on a short list is an insertion sort: a finding is put behind
\* the findings, already placed, whose key is not greater than its own
InsertFinding(sorted, f) ==
    LET k == Cardinality({i \in 1..Len(sorted) : severity_order(sorted[i]) <= severity_order(f)})
    IN  SubSeq(sorted, 1, k) \o <<f>> \o SubSeq(sorted, k + 1, Len(sorted))

RECURSIVE SortFindings(_, _)
SortFindings(sorted, rest) ==
    IF rest = <<>> THEN sorted
    ELSE SortFindings(InsertFinding(sorted, Head(rest)), Tail(rest))

OfType(all_issues, t) == SelectSeq(all_issues, LAMBDA i : i.type = t)

\* The findings of the passes in the order generate_analysis_report
\* collects them, before they are sorted
CollectFindings(all_issues, coverage) ==
    detect_terminology_drift(all_issues)
    \o detect_vague_language(all_issues)
    \o detect_placeholders(all_issues)
    \o validate_hierarchy(all_issues)
    \o CoverageFindings(coverage)

\* The metrics of the report
Metrics(all_issues, findings, coverage) ==
    [total_issues |-> Len(all_issues),
     epics   |-> Len(OfType(all_issues, "epic")),
     specs   |-> Len(OfType(all_issues, "spec")),
     stories |-> Len(OfType(all_issues, "story")),
     tasks   |-> Len(OfType(all_issues, "task")),
     bugs    |-> Len(OfType(all_issues, "bug")),
     overall_coverage  |-> coverage.overall_coverage_percent,
     critical_findings |-> Len(SelectSeq(findings, LAMBDA f : f.severity = "CRITICAL")),
     high_findings     |-> Len(SelectSeq(findings, LAMBDA f : f.severity = "HIGH")),
     medium_findings   |-> Len(SelectSeq(findings, LAMBDA f : f.severity = "MEDIUM")),
     low_findings      |-> Len(SelectSeq(findings, LAMBDA f : f.severity = "LOW"))]

\* The report dict of generate_analysis_report
Report(findings, metrics, coverage) ==
    [error |-> FALSE, findings |-> findings, metrics |-> metrics, coverage |-> coverage]

\* The report for a cache that is not empty, given the coverage analysis
ReportWithCoverage(all_issues, coverage) ==
    Report(SortFindings(<<>>, CollectFindings(all_issues, coverage)),
           Metrics(all_issues, SortFindings(<<>>, CollectFindings(all_issues, coverage)), coverage),
           coverage)

\* A report that runs the passes on an empty cache as on any other
generate_analysis_report_unguarded(all_issues) ==
    ReportWithCoverage(all_issues,
        analyze_coverage(OfType(all_issues, "spec"), OfType(all_issues, "story")))

\* generate_analysis_report on the issues load_cached_issues returns
generate_analysis_report(all_issues) ==
    IF all_issues = <<>>
    THEN [error |-> TRUE, findings |-> <<>>, metrics |-> <<>>]
    ELSE ReportWithCoverage(all_issues,
             analyze_coverage(OfType(all_issues, "spec"), OfType(all_issues, "story")))

(***************************************************************************)
(* issue_index.py: generate_analysis_report on a cache of specs to which   *)
(* stories are added.                                                      *)
(***************************************************************************)
\* A spec body with r requirements and one acceptance criterion
SpecBody(r) ==
    <<Text(HReqs)>> \o [i \in 1..r |-> Text(LUsers)] \o <<Text(HAccept), Text(LCrit)>>

CachedSpec(number, r) == [number |-> number, type |-> "spec", body |-> SpecBody(r)]

CoverageCorpora ==
    {<<CachedSpec(1, r)>> : r \in 0..MaxReqs}
    \cup {<<CachedSpec(1, r1), CachedSpec(12, r2)>> : r1 \in 0..MaxReqs, r2 \in 0..MaxReqs}

StoryBodies ==
    { <<>>,
      <<Text(LText), [label |-> "Parent Spec", num |-> 1]>>,
      <<[label |-> "Parent Spec", num |-> 12]>>,
      <<[label |-> "Implements Spec", num |-> 1]>> }

Analysis(all_issues) == [fn |-> "analyze", result |-> generate_analysis_report(all_issues)]

\* The cache holds specs and the report is generated
AnalyzeSpecs ==
    /\ report = NoCall
    /\ \E all_issues \in CoverageCorpora :
          /\ corpus' = all_issues
          /\ report' = Analysis(all_issues)
    /\ UNCHANGED <<lifeVars, seqVars, valVars, hierVars, probe>>

\* A story is synced into the cache and the report is generated again
AddStory ==
    /\ report # NoCall
    /\ Len(OfType(corpus, "story")) < MaxStories
    /\ \E body \in StoryBodies :
          /\ corpus' = Append(corpus, [number |-> 20 + Len(corpus), type |-> "story",
                                       body |-> body])
          /\ report' = Analysis(corpus')
    /\ UNCHANGED <<lifeVars, seqVars, valVars, hierVars, probe>>

InitCoverage == InitLife /\ RestSeq /\ RestVal /\ RestHier /\ RestAna

NextCoverage == AnalyzeSpecs \/ AddStory

SpecCoverage == InitCoverage /\ [][NextCoverage]_vars

(***************************************************************************)
(* story_generator.py: generate_story_body.  An argument that is "" or     *)
(* <<>> stands for a missing one; technical_notes "" stands for None.      *)
(***************************************************************************)
\* f"- [ ] {task}"
Checkbox(text) == CASE text = LSignIn -> LUsers

generate_story_body(user_story, description, tasks, acceptance_criteria, parent_spec, technical_notes) ==
    <<[label |-> "**Parent Spec**", num |-> parent_spec],
      Text(LBlank), Text(HUserStory), Text(LBlank),
      Text(IF user_story # "" THEN user_story ELSE LAsA),
      Text(LBlank), Text(HDescription), Text(LBlank),
      Text(IF description # "" THEN description ELSE LDetailed),
      Text(LBlank), Text(HTasks), Text(LBlank)>>
    \o (IF tasks # <<>> THEN [i \in 1..Len(tasks) |-> Text(Checkbox(tasks[i]))]
        ELSE <<Text(LTask1), Text(LTask2)>>)
    \o <<Text(LBlank), Text(HAccept), Text(LBlank)>>
    \o (IF acceptance_criteria # <<>>
        THEN [i \in 1..Len(acceptance_criteria) |-> Text(Checkbox(acceptance_criteria[i]))]
        ELSE <<Text(LCrit), Text(LCrit2)>>)
    \o (IF technical_notes # ""
        THEN <<Text(LBlank), Text(HNotes), Text(LBlank), Text(technical_notes)>>
        ELSE <<>>)

\* The arguments of the story generator: everything left out, or given
StoryArguments == {[text |-> "", items |-> <<>>], [text |-> LText, items |-> <<LSignIn>>]}

\* A story is generated for a cached spec, synced into the cache under the
\* number the tracker gave it, and the report is generated again
GenerateStory ==
    /\ report # NoCall
    /\ Len(OfType(corpus, "story")) < MaxStories
    /\ \E given \in StoryArguments, parent_spec \in {1, 12} :
          /\ corpus' = Append(corpus,
                  [number |-> 20 + Len(corpus), type |-> "story", generated_for |-> parent_spec,
                   body |-> generate_story_body(given.text, given.text, given.items, given.items,
                                                parent_spec, "")])
          /\ report' = Analysis(corpus')
    /\ UNCHANGED <<lifeVars, seqVars, valVars, hierVars, probe>>

NextStory == AnalyzeSpecs \/ GenerateStory

SpecStory == InitCoverage /\ [][NextStory]_vars

(***************************************************************************)
(* issue_index.py: generate_analysis_report on one cache.                  *)
(***************************************************************************)
Cached(number, type, body) == [number |-> number, type |-> type, body |-> body]

\* Caches for the hierarchy pass: an issue whose body holds references to
\* issue 2 and to an issue that is not cached, with or without issue 2
HierarchyLines ==
    {[label |-> l, num |-> n] :
        l \in {"Parent Epic", "Parent Story", "Related Issue", "Parent"}, n \in {2, 9}}

HierarchyCorpora ==
    {<<Cached(1, t, b)>> \o rest :
        t \in {"epic", "spec", "story"},
        b \in SeqsUpTo(HierarchyLines, MaxRefs),
        rest \in {<<>>, <<Cached(2, "epic", <<>>)>>}}

\* Caches for the vague-language pass
VagueLines == {Text(l) : l \in {TFast, TBare, TFaster, TTwice, TLong, LText}}

VagueCorpora ==
    {<<Cached(1, "task", b)>> \o rest :
        b \in SeqsUpTo(VagueLines, MaxLines),
        rest \in {<<>>, <<Cached(2, "task", <<Text(TBare), Text(TTwice)>>)>>}}

\* Caches whose findings come from several passes
MixedLines ==
    {Text(TFast), Text(TDrift), Text(HReqs), Text(LUsers), [label |-> "Parent Epic", num |-> 9]}

MixedCorpora ==
    {<<Cached(1, t, b)>> \o rest :
        t \in {"spec", "story"},
        b \in SeqsUpTo(MixedLines, MaxLines),
        rest \in {<<>>,
                  <<Cached(2, "story", <<Text(TFast), [label |-> "Parent Spec", num |-> 1]>>)>>,
                  <<Cached(2, "spec", <<Text(HReqs), Text(LReq), Text(LUsers)>>)>>}}

\* Caches for the drift pass: one or two issues that use terms of the groups
DriftLines == {Text(l) : l \in {TDrift, LText, TFast, LClarify}}

DriftCorpora ==
    {<<Cached(1, "task", b)>> : b \in SeqsUpTo(DriftLines, MaxLines)}
    \cup {<<Cached(1, "task", b1), Cached(2, "task", b2)>> :
              b1 \in SeqsUpTo(DriftLines, MaxLines), b2 \in SeqsUpTo(DriftLines, MaxLines)}

CachedCorpora ==
    {<<>>} \cup HierarchyCorpora \cup VagueCorpora \cup MixedCorpora \cup DriftCorpora

\* The report is generated for the cache as load_cached_issues returns it
Analyze ==
    /\ report = NoCall
    /\ \E all_issues \in CachedCorpora :
          /\ corpus' = all_issues
          /\ report' = Analysis(all_issues)
    /\ UNCHANGED <<lifeVars, seqVars, valVars, hierVars, probe>>

InitAnalyze == InitLife /\ RestSeq /\ RestVal /\ RestHier /\ RestAna

NextAnalyze == Analyze

SpecAnalyze == InitAnalyze /\ [][NextAnalyze]_vars

(***************************************************************************)
(* draft_manager.py: map_draft_to_issue_fields.  Here a title is a string  *)
(* of characters, written as a sequence of one-character strings.          *)
(***************************************************************************)
\* str.lower and str.upper on the characters that occur
LowerChar(c) ==
    CASE c = "S" -> "s" [] c = "P" -> "p" [] c = "E" -> "e" [] c = "C" -> "c"
      [] c = "L" -> "l" [] c = "A" -> "a" [] c = "N" -> "n" [] c = "J" -> "j"
      [] c = "W" -> "w" [] c = "T" -> "t" [] OTHER -> c

UpperChar(c) ==
    CASE c = "s" -> "S" [] c = "p" -> "P" [] OTHER -> c

Lower(str) == [i \in 1..Len(str) |-> LowerChar(str[i])]

\* str.capitalize
Capitalize(str) ==
    [i \in 1..Len(str) |-> IF i = 1 THEN UpperChar(str[i]) ELSE LowerChar(str[i])]

\* str.startswith
StartsWith(str, prefix) ==
    Len(prefix) <= Len(str) /\ SubSeq(str, 1, Len(prefix)) = prefix

\* str.strip on strings whose only white space is the blank
StripBlanks(str) ==
    LET solid == {i \in 1..Len(str) : str[i] # " "}
    IN  IF solid = {} THEN <<>>
        ELSE SubSeq(str, CHOOSE i \in solid : \A j \in solid : i <= j,
                         CHOOSE i \in solid : \A j \in solid : j <= i)

\* str.split(":", 1)[-1]: what follows the first colon, or the whole string
AfterFirstColon(str) ==
    LET colons == {i \in 1..Len(str) : str[i] = ":"}
    IN  IF colons = {} THEN str
        ELSE SubSeq(str, (CHOOSE i \in colons : \A j \in colons : i <= j) + 1, Len(str))

TypeName(draft_type) ==
    CASE draft_type = "spec" -> <<"s", "p", "e", "c">>
      [] draft_type = "plan" -> <<"p", "l", "a", "n">>

\* The title that map_draft_to_issue_fields builds
IssueTitle(draft_type, title_text) ==
    <<"[">> \o Capitalize(TypeName(draft_type)) \o <<"]", " ">>
    \o (IF ~StartsWith(Lower(title_text), TypeName(draft_type))
        THEN title_text
        ELSE StripBlanks(AfterFirstColon(title_text)))

\* The parts of the issue body: the parent reference in front, then the
\* sections of the draft that the issue template has, in template order
IssueBodyParts(draft_type, frontmatter, sections) ==
    LET mapped == IF draft_type = "spec"
                  THEN <<"Overview", "Requirements", "Acceptance Criteria", "Technical Notes">>
                  ELSE IF draft_type = "plan"
                  THEN <<"Implementation Approach", "Technical Decisions">>
                  ELSE <<>>
        key    == IF draft_type = "spec" THEN "parent_epic" ELSE "parent_spec"
        label  == IF draft_type = "spec" THEN "**Parent Epic**" ELSE "**Parent Spec**"
        parent == IF key \in DOMAIN frontmatter THEN frontmatter[key] ELSE 0
        named  == SelectSeq(mapped, LAMBDA n : n \in DOMAIN sections)
    IN  (IF draft_type \in {"spec", "plan"} /\ parent # 0
         THEN <<[label |-> label, num |-> parent]>> ELSE <<>>)
        \o [i \in 1..Len(named) |-> [heading |-> named[i], content |-> sections[named[i]]]]

map_draft_to_issue_fields(doc) ==
    LET parsed     == parse_draft(doc)
        draft_type == IF "type" \in DOMAIN parsed.frontmatter
                      THEN parsed.frontmatter.type ELSE "spec"
    IN  [title      |-> IssueTitle(draft_type, parsed.frontmatter.title),
         body       |-> IssueBodyParts(draft_type, parsed.frontmatter, parsed.sections),
         labels     |-> IF draft_type = "spec" THEN <<"type:spec", "status:draft">>
                        ELSE <<"type:plan">>,
         draft_type |-> draft_type]

\* The words and separators of which the titles are made
TitlePieces ==
    { <<"S", "p", "e", "c">>, <<"S", "P", "E", "C">>, <<"P", "l", "a", "n">>,
      <<"i", "a", "l">>, <<"L", "o", "g", "i", "n">>, <<":">>, <<" ">> }

FieldTitles == {Flatten(pieces) : pieces \in SeqsUpTo(TitlePieces, MaxPieces)}

FieldDrafts ==
    {[yaml |-> TRUE,
      fm   |-> [type |-> t, title |-> title, parent_epic |-> 7, parent_spec |-> 3],
      body |-> <<LBlank, HOverview, LText, HApproach, LText>>] :
        t \in {"spec", "plan"}, title \in FieldTitles}

\* A caller maps a draft to the fields of the issue to create
MapFields ==
    /\ probe = NoCall
    /\ \E doc \in FieldDrafts :
          probe' = [fn |-> "fields", arg |-> doc, result |-> map_draft_to_issue_fields(doc)]
    /\ UNCHANGED <<lifeVars, seqVars, valVars, hierVars, corpus, report>>

InitFields == InitLife /\ RestSeq /\ RestVal /\ RestHier /\ RestAna

NextFields == MapFields

SpecFields == InitFields /\ [][NextFields]_vars

(***************************************************************************)
(* worktree_manager.py: generate_branch_name.                              *)
(***************************************************************************)
BRANCH_MAX_LENGTH == 50

\* [a-z0-9]
IsSlugChar(c) ==
    c \in {"a", "c", "e", "i", "j", "k", "l", "n", "o", "p", "r", "s", "t", "w", "y",
           "0", "1", "2", "3", "4", "5", "6", "7", "8", "9"}

\* str(issue_number)
RECURSIVE Str(_)
Str(n) ==
    LET digit == <<"0", "1", "2", "3", "4", "5", "6", "7", "8", "9">>[(n % 10) + 1]
    IN  IF n < 10 THEN <<digit>> ELSE Str(n \div 10) \o <<digit>>

\* re.sub(r"^\[story\]\s*", "", slug)
WithoutStoryPrefix(str) ==
    LET tag == <<"[", "s", "t", "o", "r", "y", "]">>
    IN  IF ~StartsWith(str, tag) THEN str
        ELSE LET solid == {i \in (Len(tag) + 1)..Len(str) : str[i] # " "}
             IN  IF solid = {} THEN <<>>
                 ELSE SubSeq(str, CHOOSE i \in solid : \A j \in solid : i <= j, Len(str))

\* re.sub(r"[^a-z0-9]+", "-", slug): a run of other characters becomes one
\* dash, put where the run starts
DashRuns(str) ==
    LET kept == SelectSeq([i \in 1..Len(str) |-> i],
                          LAMBDA i : IsSlugChar(str[i]) \/ i = 1 \/ IsSlugChar(str[i - 1]))
    IN  [k \in 1..Len(kept) |-> IF IsSlugChar(str[kept[k]]) THEN str[kept[k]] ELSE "-"]

\* str.strip("-") and str.rstrip("-")
StripDashes(str) ==
    LET solid == {i \in 1..Len(str) : str[i] # "-"}
    IN  IF solid = {} THEN <<>>
        ELSE SubSeq(str, CHOOSE i \in solid : \A j \in solid : i <= j,
                         CHOOSE i \in solid : \A j \in solid : j <= i)

RStripDashes(str) ==
    LET solid == {i \in 1..Len(str) : str[i] # "-"}
    IN  IF solid = {} THEN <<>>
        ELSE SubSeq(str, 1, CHOOSE i \in solid : \A j \in solid : j <= i)

\* The slug before its length is limited
Slugify(title) == StripDashes(DashRuns(WithoutStoryPrefix(Lower(title))))

\* slug[:max_slug_length]
Slice(str, stop) ==
    IF stop >= 0 THEN SubSeq(str, 1, Min(stop, Len(str)))
    ELSE SubSeq(str, 1, Len(str) + stop)

generate_branch_name(issue_number, title) ==
    Str(issue_number) \o <<"-">>
    \o RStripDashes(Slice(Slugify(title), BRANCH_MAX_LENGTH - Len(Str(issue_number)) - 1))

\* The words and separators of which the issue titles are made
BranchPieces ==
    { <<"[", "S", "t", "o", "r", "y", "]">>, <<" ", "J", "W", "T">>,
      <<" ", "T", "o", "k", "e", "n">>, <<"?", "?">>, <<"-">>, [i \in 1..22 |-> "a"] }

BranchTitles == {Flatten(pieces) : pieces \in SeqsUpTo(BranchPieces, MaxPieces)}

\* A caller asks for the branch name of a story
BranchName ==
    /\ probe = NoCall
    /\ \E issue_number \in {7, 102} : \E title \in BranchTitles :
          probe' = [fn |-> "branch", arg |-> [issue_number |-> issue_number, title |-> title],
                    result |-> generate_branch_name(issue_number, title)]
    /\ UNCHANGED <<lifeVars, seqVars, valVars, hierVars, corpus, report>>

InitBranch == InitLife /\ RestSeq /\ RestVal /\ RestHier /\ RestAna

NextBranch == BranchName

SpecBranch == InitBranch /\ [][NextBranch]_vars

(***************************************************************************)
(* Properties of archive_draft (Spec).                                     *)
(***************************************************************************)

\* While archive_draft runs, the draft is still in the drafts directory as it
\* was read, or the cache holds the completely written entry for it.
ArchiveContentKept ==
    arch.step > 0 =>
        \/ /\ arch.path \in DOMAIN drafts
           /\ drafts[arch.path] = arch.original
        \/ /\ arch.key \in DOMAIN cache
           /\ cache[arch.key] = [complete |-> TRUE, doc |-> arch.content]
           /\ arch.content.body = arch.original.body

\* A step that removes a draft file is taken only when the cache already holds
\* the completely written entry for that draft.
ArchiveRemovesAfterWrite ==
    \A p \in DOMAIN drafts :
        p \notin DOMAIN drafts' =>
            /\ arch.step > 0
            /\ arch.path = p
            /\ arch.key \in DOMAIN cache
            /\ cache[arch.key] = [complete |-> TRUE, doc |-> arch.content]
            /\ arch.content.body = drafts[p].body

\* C1: archive is sequenced write-before-remove: in every intermediate state of
\* archive_draft (also when it stops between the two steps or the cache write
\* fails) the draft's content is in the drafts directory or completely written
\* in the cache, and the draft is never removed before the cache write completed.
C1_WriteBeforeRemove == [](ArchiveContentKept) /\ [][ArchiveRemovesAfterWrite]_vars

\* An archive_draft call returned: the entry is written, the draft is removed
C1_Archived ==
    \E r \in pushed :
        /\ r.path \notin DOMAIN drafts
        /\ r.key \in DOMAIN cache
        /\ cache[r.key].complete

\* C2: while archive_draft runs on a draft whose frontmatter block cannot be
\* parsed, the draft is left untouched (not removed, not rewritten) and no cache
\* entry is written.
C2_UnparseableLeftUntouched ==
    [][(arch.step > 0 /\ ~arch.original.yaml) => (drafts' = drafts /\ cache' = cache)]_vars

\* C3: archive takes effect (writes the cache entry, removes the draft) only on
\* a draft whose ready_to_push is true at that moment.
C3_PushedOnlyFromValidated ==
    [][(arch.step > 0 /\ (cache' # cache \/ drafts' # drafts))
          => FmGet(drafts[arch.path], "ready_to_push", FALSE)]_vars

\* C4: once archive_draft has returned for a draft, in every later state that
\* draft is absent from the drafts directory and its archived record has
\* status pushed.
C4_PushedIsTerminal ==
    \A r \in pushed :
        /\ r.path \notin DOMAIN drafts
        /\ r.key \in DOMAIN cache
        /\ FmGet(cache[r.key].doc, "status", "none") = "pushed"

(***************************************************************************)
(* Properties of validation and of the sequence numbers.                   *)
(***************************************************************************)

\* C5: in every state reachable by create and applyValidation calls a draft's
\* ready_to_push equals the passed flag of its stored validation record (both
\* false right after create_spec_draft; a field is absent only if both are).
C5_ReadyIsLastPassed ==
    \A p \in DOMAIN drafts :
        LET d == drafts[p] IN
        /\ FmHas(d, "ready_to_push") <=> FmHas(d, "validation")
        /\ FmHas(d, "ready_to_push") => d.fm.ready_to_push = d.fm.validation.passed

\* A draft whose stored validation passed and that is ready to push
C5_Validated ==
    \E p \in DOMAIN drafts :
        /\ FmGet(drafts[p], "ready_to_push", FALSE)
        /\ drafts[p].fm.validation.passed
        /\ "last_check" \in DOMAIN drafts[p].fm.validation

SectionFinding(sections, section) ==
    IF section \notin DOMAIN sections THEN <<IssueMissing(section)>>
    ELSE IF sections[section] = <<>> THEN <<IssueNeedsContent(section)>>
    ELSE IF StartsWithBracket(sections[section][1]) THEN <<IssueNeedsContent(section)>>
    ELSE <<>>

\* The findings of a draft in detection order: required sections in the type's
\* order, clarification marker, generic placeholders, missing parent epic
ExpectedFindings(doc) ==
    LET draft_type == IF doc.yaml /\ "type" \in DOMAIN doc.fm THEN doc.fm.type ELSE "spec"
        required   == REQUIRED_SECTIONS(draft_type)
        sections   == parse_draft(doc).sections
        at(i)      == IF i <= Len(required) THEN SectionFinding(sections, required[i]) ELSE <<>>
        marker     == IF \E i \in 1..Len(doc.body) : HasClarifyMarker(doc.body[i])
                      THEN <<IssueClarify>> ELSE <<>>
        generic    == IF \E i \in 1..Len(doc.body) : HasGenericPlaceholder(doc.body[i])
                      THEN <<IssuePlaceholder>> ELSE <<>>
        parent     == IF draft_type = "spec"
                         /\ ~(doc.yaml /\ "parent_epic" \in DOMAIN doc.fm /\ doc.fm.parent_epic # 0)
                      THEN <<IssueNoParent>> ELSE <<>>
    IN  at(1) \o at(2) \o at(3) \o marker \o generic \o parent

\* C7: validate returns passed exactly when it produced no findings; the
\* findings are one per required section that is absent, empty or starts with a
\* bracket, in the type's section order, then the clarification marker, then
\* the generic placeholders, then for specs the missing parent epic.  A body
\* with [NEEDS CLARIFICATION] always fails with the finding naming the marker.
C7_FindingsInDetectionOrder ==
    vresult.has =>
        /\ vresult.val.passed <=> (vresult.val.issues = <<>>)
        /\ vresult.val.issues = ExpectedFindings(vdoc)
        /\ (\E i \in 1..Len(vdoc.body) : HasClarifyMarker(vdoc.body[i])) =>
              /\ ~vresult.val.passed
              /\ \E j \in 1..Len(vresult.val.issues) : vresult.val.issues[j] = IssueClarify

\* A spec whose required sections are complete and whose only finding is the marker
C7_OnlyTheMarker ==
    /\ vresult.has
    /\ vdoc.yaml /\ vdoc.fm = [type |-> "spec", parent_epic |-> 7]
    /\ vresult.val.issues = <<IssueClarify>>
    /\ ~vresult.val.passed

\* The numeric prefixes among the files of a listing
Numbered(listing) == {listing[i] : i \in 1..Len(listing)} \ {NoPrefix}

\* C8: the next sequence number is 1 when no draft exists and otherwise the
\* highest leading numeric filename prefix plus one, whatever the order in
\* which the files are enumerated.
C8_NextIsHighestPlusOne ==
    nextNumber # 0 =>
        nextNumber = IF Numbered(files) = {} THEN 1
                     ELSE (CHOOSE n \in Numbered(files) : \A m \in Numbered(files) : m <= n) + 1

\* The listing 003-x.md, 001-y.md gives 4
C8_ThreeOneGivesFour == files = <<3, 1>> /\ nextNumber = 4

\* C9: no create returns a sequence number that an earlier created draft of
\* that type was given, archived since or not.
C9_FreshNumbers ==
    \A i, j \in 1..Len(allocLog) : allocLog[i] = allocLog[j] => i = j

(***************************************************************************)
(* Properties of the hierarchy (SpecHier).                                 *)
(***************************************************************************)

\* The input numbers, in input order
InputNumbers == [i \in 1..Len(issues) |-> issues[i].number]

\* The issue of the input with number n
IssueOf(n) == issues[CHOOSE i \in 1..Len(issues) : issues[i].number = n]

\* The pairs <<n, m>> of input numbers where the parent reference of issue n
\* names m (issue numbers are positive, #0 names no issue)
ParentInInput ==
    {<<issues[i].number, _extract_parent_number(issues[i])>> : i \in 1..Len(issues)}
        \cap ((DOMAIN hierarchy.issue_map) \X ((DOMAIN hierarchy.issue_map) \ {0}))

\* The numbers of the epic-typed issues of the input
EpicNumbers ==
    {issues[i].number : i \in {j \in 1..Len(issues) : _detect_issue_type(issues[j]) = "epic"}}

\* The elements of a list
Range(list) == {list[i] : i \in 1..Len(list)}

\* A list without repetition
NoRepeat(list) == \A i, j \in 1..Len(list) : list[i] = list[j] => i = j

\* Every issue with a parent in the input is a child of that parent, once, and
\* of no other issue; the children of an issue are listed in input order; no
\* other issue is a child
ChildrenPlaced(parent) ==
    \A m \in DOMAIN hierarchy.issue_map :
        LET children == hierarchy.issue_map[m].children
        IN  /\ NoRepeat(children)
            /\ Range(children) = {n \in DOMAIN hierarchy.issue_map : <<n, m>> \in parent}
            /\ children = SelectSeq(InputNumbers, LAMBDA n : <<n, m>> \in parent)

\* No issue is both a root and a child, and no issue is a root twice
RootsApart(parent) ==
    /\ NoRepeat(hierarchy.epics)
    /\ Range(hierarchy.epics) \cap {pair[1] : pair \in parent} = {}

\* C10 as amended: every issue is in exactly one position: child of the issue
\* its parent reference names when that issue is in the input, in input
\* order; root, exactly for the epic-typed issues that are not such a child
\* (no parent reference, a reference to #0 or to a number absent from the
\* input); or detached.  No issue is both root and child or occurs twice.
C10_OnePositionEach ==
    hierarchy.built =>
        LET parent   == ParentInInput
            attached == {pair[1] : pair \in parent}
            epic     == EpicNumbers
        IN  /\ ChildrenPlaced(parent)
            /\ RootsApart(parent)
            /\ hierarchy.epics =
                  SelectSeq(InputNumbers, LAMBDA n : n \in epic /\ n \notin attached)

\* C10 as stated: as above, but an issue is a root only if it is epic-typed
\* and has no parent reference.
C10_RootsHaveNoReference ==
    hierarchy.built =>
        LET parent == ParentInInput
        IN  /\ ChildrenPlaced(parent)
            /\ RootsApart(parent)
            /\ \A n \in Range(hierarchy.epics) :
                  /\ n \in EpicNumbers
                  /\ _extract_parent_number(IssueOf(n)) = NoParent

\* A root epic, a parent with two children listed in input order against the
\* order of their numbers, one of them an epic
C10_TwoChildrenAndARoot ==
    /\ hierarchy.built
    /\ hierarchy.epics # <<>>
    /\ \E m \in DOMAIN hierarchy.issue_map :
          LET ch == hierarchy.issue_map[m].children
          IN  /\ Len(ch) = 2
              /\ ch[1] > ch[2]
              /\ \E i \in 1..2 : _detect_issue_type(IssueOf(ch[i])) = "epic"

\* The numbers in the children list of issue n
ChildrenOf(n) == Range(hierarchy.issue_map[n].children)

\* The issues reached from the set S in at most k steps along children links
RECURSIVE ReachWithin(_, _)
ReachWithin(S, k) ==
    IF k = 0 THEN S
    ELSE ReachWithin(S \cup UNION {ChildrenOf(n) : n \in S}, k - 1)

\* The issues in the transitive closure of the children list of n
Descendants(n) == ReachWithin(ChildrenOf(n), Len(issues))

\* C11: every non-epic issue that was attached to a parent is reachable along
\* children links from exactly one root epic, and a non-epic issue that no root
\* reaches is one for which no parent in the input could be determined.
C11_AttachedReachedFromOneRoot ==
    hierarchy.built =>
        LET attached == {pair[1] : pair \in ParentInInput}
        IN  \A n \in (DOMAIN hierarchy.issue_map) \ EpicNumbers :
                LET roots == {i \in 1..Len(hierarchy.epics) : n \in Descendants(hierarchy.epics[i])}
                IN  /\ n \in attached => Cardinality(roots) = 1
                    /\ roots = {} => n \notin attached

\* C12: no issue is its own ancestor: no issue is in the transitive closure of
\* its own children list, whatever the parent references of the input.
C12_NoIssueItsOwnAncestor ==
    hierarchy.built =>
        \A n \in DOMAIN hierarchy.issue_map : n \notin Descendants(n)

\* C13: building the hierarchy and counting the issues under its roots
\* (_count_issues, _count_children) terminates for every issue list, also with
\* parent references to a non-epic issue, to the issue itself or in a cycle,
\* and the count never exceeds the number of input issues.
C13_CountTerminatesWithinInput ==
    /\ <>(counting.pc = "done")
    /\ [](counting.pc # "idle" => counting.count <= Len(issues))

\* A finished count of a root with its child where other issues of the input
\* are their own ancestors
C13_CountedBesideACycle ==
    /\ counting.pc = "done"
    /\ counting.count = 2
    /\ \E n \in DOMAIN hierarchy.issue_map : n \in Descendants(n)

(***************************************************************************)
(* Properties of classification and parent extraction.                     *)
(***************************************************************************)

\* The first keyword, in the order epic, spec, story, task, bug, of a set
FirstKeyword(kws) ==
    IF "epic" \in kws THEN "epic"
    ELSE IF "spec" \in kws THEN "spec"
    ELSE IF "story" \in kws THEN "story"
    ELSE IF "task" \in kws THEN "task"
    ELSE "bug"

\* C14: the type depends on the issue's labels and title only: the first
\* label, in list order, that contains a type keyword decides, by the first of
\* epic, spec, story, task, bug it contains; the title prefix is consulted
\* only when no label contains a keyword; otherwise the type is unknown.
C14_FirstLabelThenTitle ==
    probe.fn = "classify" =>
        LET labels == probe.arg.labels
            typed  == {i \in 1..Len(labels) : KeywordsIn(labels[i]) # {}}
        IN  /\ \A i \in typed :
                  (\A j \in typed : i <= j) => probe.result = FirstKeyword(KeywordsIn(labels[i]))
            /\ (typed = {} /\ TitlePrefix(probe.arg.title) # "none")
                  => probe.result = TitlePrefix(probe.arg.title)
            /\ (typed = {} /\ TitlePrefix(probe.arg.title) = "none")
                  => probe.result = "unknown"

\* A label with two keywords before an epic label, under a story title
C14_SpecBeforeStoryAndEpic ==
    /\ probe.fn = "classify"
    /\ probe.arg.labels = <<"user-story-spec", "type:epic">>
    /\ probe.arg.title = "[Story] Sign in"
    /\ probe.result = "spec"

\* The place of a pattern in the order Parent Epic, Parent Spec, Parent
\* Story, Related Issue, Parent
Priority(pattern) ==
    CASE pattern = "Parent Epic"   -> 1
      [] pattern = "Parent Spec"   -> 2
      [] pattern = "Parent Story"  -> 3
      [] pattern = "Related Issue" -> 4
      [] pattern = "Parent"        -> 5

\* C15: the parent number is the number of a reference that matches the
\* highest-priority pattern matching anywhere in the body (Parent Epic, Parent
\* Spec, Parent Story, Related Issue, Parent, case ignored), wherever the
\* matches lie; no number is returned only when no pattern matches.
C15_HighestPriorityPattern ==
    probe.fn = "parent" =>
        LET body    == probe.arg.body
            matched == {i \in 1..Len(body) : MatchedPattern(body[i].label) # "none"}
            rank(i) == Priority(MatchedPattern(body[i].label))
        IN  /\ probe.result = NoParent <=> matched = {}
            /\ matched # {} =>
                  \E i \in matched :
                      /\ probe.result = body[i].num
                      /\ \A j \in matched : rank(i) <= rank(j)
                      /\ \A j \in matched : rank(i) = rank(j) => i <= j

\* Related Issue: #5 before Parent Epic: #9 resolves to 9
C15_RelatedBeforeParentEpic ==
    /\ probe.fn = "parent"
    /\ probe.arg.body = <<[label |-> "Related Issue", num |-> 5],
                          [label |-> "Parent Epic", num |-> 9]>>
    /\ probe.result = 9

(***************************************************************************)
(* Claims about the corpus analyzer.                                       *)
(***************************************************************************)
Analyzed == report # NoCall /\ ~report.result.error

GapFindings(n) ==
    {i \in 1..Len(report.result.findings) :
        /\ report.result.findings[i].category = "coverage_gap"
        /\ report.result.findings[i].issue = n}

C17_CoverageMonotone ==
    [][(/\ Analyzed
        /\ report' # NoCall
        /\ Len(corpus') = Len(corpus) + 1
        /\ SubSeq(corpus', 1, Len(corpus)) = corpus
        /\ corpus'[Len(corpus')].type = "story"
        /\ \E n \in DOMAIN report.result.coverage.coverage_by_spec :
              /\ report.result.coverage.coverage_by_spec[n].stories
                    < report.result.coverage.coverage_by_spec[n].requirements
              /\ LinksTo(corpus'[Len(corpus')].body, n,
                         {"Parent Spec: #", "parent_spec: ", "Spec #"}))
       => /\ \A m \in DOMAIN report.result.coverage.coverage_by_spec :
                report'.result.coverage.coverage_by_spec[m].coverage_percent
                    >= report.result.coverage.coverage_by_spec[m].coverage_percent
          /\ report'.result.coverage.overall_coverage_percent
                >= report.result.coverage.overall_coverage_percent]_vars

\* C17, witness: the last story of the cache links to spec 1, which with it
\* has two linked stories for three requirements and 66.7 percent
C17_SecondStoryOfThree ==
    /\ Analyzed
    /\ Len(corpus) > 0
    /\ corpus[Len(corpus)].type = "story"
    /\ LinksTo(corpus[Len(corpus)].body, 1, {"Parent Spec: #", "parent_spec: ", "Spec #"})
    /\ report.result.coverage.coverage_by_spec[1].requirements = 3
    /\ report.result.coverage.coverage_by_spec[1].stories = 2
    /\ report.result.coverage.coverage_by_spec[1].coverage_percent = 667

FindingsOf(category, number) ==
    {i \in 1..Len(report.result.findings) :
        /\ report.result.findings[i].category = category
        /\ report.result.findings[i].issue = number}

\* C18: the hierarchy pass agrees with _extract_parent_number: an issue of
\* type spec or story has one HIGH orphan_issue finding when
\* _extract_parent_number finds no parent number in its body and none when it
\* finds one, and an issue has a CRITICAL broken_reference finding exactly
\* when the parent number that _extract_parent_number finds is not the number
\* of a cached issue.
C18_HierarchyPassAgreesWithExtraction ==
    Analyzed =>
        \A k \in 1..Len(corpus) :
            LET issue      == corpus[k]
                parent_num == _extract_parent_number(issue)
                known      == {corpus[j].number : j \in 1..Len(corpus)}
            IN  /\ issue.type \in {"spec", "story"} =>
                      /\ Cardinality(FindingsOf("orphan_issue", issue.number))
                            = IF parent_num = NoParent THEN 1 ELSE 0
                      /\ \A i \in FindingsOf("orphan_issue", issue.number) :
                            report.result.findings[i].severity = "HIGH"
                /\ FindingsOf("broken_reference", issue.number) # {}
                      <=> (parent_num # NoParent /\ parent_num \notin known)
                /\ \A i \in FindingsOf("broken_reference", issue.number) :
                      report.result.findings[i].severity = "CRITICAL"

\* The concatenated outputs of the passes for the analysed cache
PassOutputs == CollectFindings(corpus, report.result.coverage)

SeverityRank(severity) ==
    CASE severity = "CRITICAL" -> 0
      [] severity = "HIGH"     -> 1
      [] severity = "MEDIUM"   -> 2
      [] severity = "LOW"      -> 3

OfSeverity(findings, severity) == SelectSeq(findings, LAMBDA f : f.severity = severity)

\* C19: the findings of the report are in the order CRITICAL, HIGH, MEDIUM,
\* LOW; they are as many as the passes produced, and the findings of each
\* severity are the findings of that severity which the passes produced, in
\* the order in which the passes produced them.
C19_StableSeverityOrder ==
    Analyzed =>
        LET findings == report.result.findings
            produced == PassOutputs
        IN  /\ \A i \in 1..Len(findings) : \A j \in (i + 1)..Len(findings) :
                  SeverityRank(findings[i].severity) <= SeverityRank(findings[j].severity)
            /\ Len(findings) = Len(produced)
            /\ \A s \in {"CRITICAL", "HIGH", "MEDIUM", "LOW"} :
                  OfSeverity(findings, s) = OfSeverity(produced, s)

\* C19, witness: a report in which a vague_language finding stands in front
\* of an orphan_story finding, both MEDIUM, and behind a CRITICAL
\* broken_reference finding that the passes produced after it
C19_MediumKeepsPassOrder ==
    /\ Analyzed
    /\ \E i, j, k \in 1..Len(report.result.findings) :
          /\ i < j /\ j < k
          /\ report.result.findings[i].category = "broken_reference"
          /\ report.result.findings[j].category = "vague_language"
          /\ report.result.findings[k].category = "orphan_story"
    /\ report.result.findings # PassOutputs

VagueFindings(number, term) ==
    {i \in 1..Len(report.result.findings) :
        /\ report.result.findings[i].category = "vague_language"
        /\ report.result.findings[i].issue = number
        /\ report.result.findings[i].detail.term = term}

\* C20: for every cached issue and every term of the vocabulary that occurs
\* in the issue's body the report has exactly one vague_language finding for
\* the issue and the term; it is MEDIUM and its context is the first sentence
\* with the term, cut to at most 100 characters.
C20_OneFindingForEachTermThatOccurs ==
    Analyzed =>
        \A k \in 1..Len(corpus) : \A t \in 1..Len(VAGUE_TERMS) :
            LET issue == corpus[k]
                term  == VAGUE_TERMS[t]
            IN  (\E j \in 1..Len(issue.body) : term \in VagueIn(issue.body[j].label)) =>
                    /\ Cardinality(VagueFindings(issue.number, term)) = 1
                    /\ \A i \in VagueFindings(issue.number, term) :
                          LET f == report.result.findings[i]
                          IN  /\ f.severity = "MEDIUM"
                              /\ f.detail.context.to - f.detail.context.from + 1 <= 100
                              /\ \E o \in WordsOf(issue.body, term) :
                                    f.detail.context.from <= o /\ o <= f.detail.context.to

DriftFindings(g) ==
    {i \in 1..Len(report.result.findings) :
        /\ report.result.findings[i].category = "terminology_drift"
        /\ Range(report.result.findings[i].detail) \cap Range(TERM_GROUPS[g]) # {}}

ObservedTerms(g) ==
    {t \in Range(TERM_GROUPS[g]) :
        \E k \in 1..Len(corpus) : \E j \in 1..Len(corpus[k].body) :
            t \in DriftIn(corpus[k].body[j].label)}

\* C21: for every synonym group the report has one terminology_drift finding
\* when two or more terms of the group occur in the bodies of the cache, and
\* none otherwise; the finding is MEDIUM and lists exactly the terms of the
\* group that occur, however many issues hold them and in whatever order the
\* issues are given.
C21_OneDriftFindingForEachGroup ==
    Analyzed =>
        \A g \in 1..Len(TERM_GROUPS) :
            /\ Cardinality(DriftFindings(g)) = IF Cardinality(ObservedTerms(g)) >= 2 THEN 1 ELSE 0
            /\ \A i \in DriftFindings(g) :
                  /\ report.result.findings[i].severity = "MEDIUM"
                  /\ Range(report.result.findings[i].detail) = ObservedTerms(g)
                  /\ NoRepeat(report.result.findings[i].detail)

\* C21, witness: two cached issues that both hold "user" and "client" give
\* one finding for their group, which lists both terms
C21_UserAndClientInTwoIssues ==
    /\ Analyzed
    /\ Len(corpus) = 2
    /\ \A k \in 1..2 : \A t \in {"user", "client"} :
          \E j \in 1..Len(corpus[k].body) : t \in DriftIn(corpus[k].body[j].label)
    /\ Cardinality(DriftFindings(1)) = 1
    /\ \A i \in DriftFindings(1) : report.result.findings[i].detail = <<"user", "client">>

AfterSeparator(str) ==
    LET solid == {i \in 1..Len(str) : str[i] \notin {" ", ":"}}
    IN  IF solid = {} THEN <<>>
        ELSE SubSeq(str, CHOOSE i \in solid : \A j \in solid : i <= j, Len(str))

\* C23: the title of the issue is "[Type] rest", Type being the capitalized
\* draft type: when the stored title starts with the type name, case ignored,
\* rest is the stored title without that prefix and the separator behind it,
\* all text behind the separator kept (blanks at its ends aside); otherwise
\* rest is the whole stored title.
C23_TitleKeepsTextBehindTypePrefix ==
    probe.fn = "fields" =>
        LET stored == probe.arg.fm.title
            name   == TypeName(probe.arg.fm.type)
            rest   == IF StartsWith(Lower(stored), name)
                      THEN StripBlanks(AfterSeparator(SubSeq(stored, Len(name) + 1, Len(stored))))
                      ELSE stored
        IN  probe.result.title = <<"[">> \o Capitalize(name) \o <<"]", " ">> \o rest

\* C24: the branch name is the issue number, a dash and a slug; the slug is
\* the lowercased title without a leading [Story] prefix, every run of
\* characters that are not letters or digits turned into one dash, no dash
\* at its ends, cut so that the name has at most 50 characters; and the name
\* does not end in a dash.
C24_BranchNameIsNumberAndSlug ==
    probe.fn = "branch" =>
        LET name   == probe.result
            number == Str(probe.arg.issue_number)
            full   == Slugify(probe.arg.title)
            slug   == SubSeq(name, Len(number) + 2, Len(name))
        IN  /\ StartsWith(name, number \o <<"-">>)
            /\ StartsWith(full, slug)
            /\ Len(number) + 1 + Len(full) <= BRANCH_MAX_LENGTH => slug = full
            /\ \A i \in 1..Len(full) :
                  /\ IsSlugChar(full[i]) \/ full[i] = "-"
                  /\ full[i] = "-" => i \notin {1, Len(full)} /\ full[i + 1] # "-"
            /\ Len(name) <= BRANCH_MAX_LENGTH
            /\ name[Len(name)] # "-"

\* The keys update_draft_validation assigns
ValidationKeys == {"validation", "ready_to_push", "modified"}

\* Both documents have the same frontmatter apart from the given keys
SameFrontmatterBut(before, after, keys) ==
    /\ DOMAIN after.fm \ keys = DOMAIN before.fm \ keys
    /\ \A k \in DOMAIN before.fm \ keys : after.fm[k] = before.fm[k]

\* C25: applying a validation result changes only the frontmatter keys
\* validation, ready_to_push and modified: every other key keeps its value,
\* the text behind the closing --- line (blank lines directly behind it
\* included) stays the same, and applying the same result a second time
\* changes nothing but modified.
C25_ApplyValidationKeepsBodyAndOtherKeys ==
    [][\A p \in DOMAIN drafts :
         ApplyValidation(p) =>
             LET before == drafts[p]
                 after  == drafts'[p]
                 again  == update_draft_validation(after, validate_draft(before, now), now + 1)
             IN  /\ SameFrontmatterBut(before, after, ValidationKeys)
                 /\ after.body = before.body
                 /\ SameFrontmatterBut(after, again, {"modified"})
                 /\ again.body = after.body]_vars


\* C26: a story whose body generate_story_body wrote for parent spec N is
\* counted among the linked stories of spec N and is not listed in
\* orphan_stories, when spec N is cached.
C26_GeneratedStoryIsLinkedToItsSpec ==
    Analyzed =>
        \A i \in 1..Len(corpus) :
            LET story == corpus[i]
                specs == {corpus[j].number : j \in {k \in 1..Len(corpus) : corpus[k].type = "spec"}}
            IN  (story.type = "story" /\ story.generated_for \in specs) =>
                   /\ report.result.coverage.coverage_by_spec[story.generated_for].stories >= 1
                   /\ \A k \in 1..Len(report.result.coverage.orphan_stories) :
                          report.result.coverage.orphan_stories[k] # story.number

\* The cached stories, and the numbers of the cached specs
Stories == OfType(corpus, "story")

SpecNumbersCached == {corpus[i].number : i \in {k \in 1..Len(corpus) : corpus[k].type = "spec"}}

\* The story numbers listed in orphan_stories
Orphans ==
    {report.result.coverage.orphan_stories[k] :
        k \in 1..Len(report.result.coverage.orphan_stories)}

\* The story is among the linked stories of spec n, by any accepted phrase
CountedFor(story, n) ==
    LinksTo(story.body, n, {"Parent Spec: #", "parent_spec: ", "Spec #"})

\* C27: a story counted as linked to at least one spec is not listed in
\* orphan_stories, and a story listed in orphan_stories is counted for no
\* spec.
C27_LinkedStoriesAreNotOrphans ==
    Analyzed =>
        \A i \in 1..Len(Stories) :
            /\ (\E n \in SpecNumbersCached : CountedFor(Stories[i], n))
                   => Stories[i].number \notin Orphans
            /\ Stories[i].number \in Orphans
                   => \A n \in SpecNumbersCached : ~CountedFor(Stories[i], n)

\* The stories whose body names spec n in a "Parent Spec: #n" line
NamingSpec(n) ==
    {i \in 1..Len(Stories) :
        \E k \in 1..Len(Stories[i].body) :
            Stories[i].body[k].label = "Parent Spec" /\ Stories[i].body[k].num = n}

\* Every reference of every cached story is a "Parent Spec: #N" line
OnlyParentSpecLines ==
    \A i \in 1..Len(Stories) : \A k \in 1..Len(Stories[i].body) :
        LinkPhrase(Stories[i].body[k].label) \in {"none", "Parent Spec: #"}

\* C28: a story whose only reference is "Parent Spec: #N" is counted as
\* linked to spec M exactly when M = N, also when N begins with the digits
\* of M (1 and 12).
C28_ParentSpecNumberMatchedExactly ==
    (Analyzed /\ OnlyParentSpecLines) =>
        \A m \in SpecNumbersCached :
            report.result.coverage.coverage_by_spec[m].stories = Cardinality(NamingSpec(m))

\* frontmatter.get("issue_number") of a cache entry without that key
NoNumber == -1

\* parse_cached_issue: the record read from a cache entry; nothing when the
\* entry has no frontmatter that parses
parse_cached_issue(doc) ==
    IF ~doc.yaml THEN [parsed |-> FALSE]
    ELSE [parsed |-> TRUE,
          number |-> FmGet(doc, "issue_number", NoNumber),
          type   |-> FmGet(doc, "type", "None"),
          body   |-> DropLeadingBlank(doc.body)]

\* load_cached_issues: the records of the entries that parse
load_cached_issues(entries) ==
    {parse_cached_issue(entries[k].doc) :
        k \in {x \in DOMAIN entries : parse_cached_issue(entries[x].doc).parsed}}

\* validate_hierarchy: the set of known issue numbers
KnownIssueNumbers(loaded) == {i.number : i \in {x \in loaded : x.number \notin {NoNumber, 0}}}

\* C29: a draft archived with published number n is read back from the
\* cache as issue n: the entry {type}-{n} yields a record with number n and
\* the draft's type, so that n is among the known issue numbers.
C29_ArchivedDraftReadBackAsIssue ==
    \A a \in pushed :
        /\ a.key \in DOMAIN cache
        /\ LET issue == parse_cached_issue(cache[a.key].doc)
           IN  /\ issue.parsed
               /\ issue.type = a.key[1]
               /\ issue.number = a.key[2]
               /\ a.key[2] \in KnownIssueNumbers(load_cached_issues(cache))

\* The body of the draft is the one create wrote: nothing was edited
Unedited(doc) ==
    ParsedBody(doc) \in
        {DropLeadingBlank(PlanTemplate)}
        \cup {DropLeadingBlank(SpecTemplate(description)) : description \in FreshDescriptions}

\* C30: a draft as create wrote it, spec or plan, whatever its title, parent
\* and description, does not validate: validate returns passed = false and
\* the draft is not ready to push.
C30_FreshDraftNeverValidates ==
    \A p \in DOMAIN drafts :
        Unedited(drafts[p]) =>
            /\ ~validate_draft(drafts[p], now).passed
            /\ ~FmGet(drafts[p], "ready_to_push", FALSE)

\* The validation result of an unedited plan draft with a parent has been
\* stored in the draft
C30_UneditedPlanValidated ==
    \E p \in DOMAIN drafts :
        /\ Unedited(drafts[p])
        /\ FmGet(drafts[p], "type", "spec") = "plan"
        /\ FmHas(drafts[p], "validation")
        /\ "last_check" \in DOMAIN drafts[p].fm.validation
        /\ ~drafts[p].fm.validation.passed

====
